---- MODULE Spec2Model ----
(***************************************************************************)
(* A model of src/app.py: the request-rate governor                        *)
(* (wait_for_rate_limit), the upstream client (api_get), the TTL caches    *)
(* (get_cached_data / set_cached_data) and the snapshot store              *)
(* (filtered_fixtures_cache) with its scheduler and its readers.           *)
(*                                                                         *)
(* Time.  The governor and the retry sleeps of api_get work in seconds and *)
(* fractions of a second: their clock counts ticks, TicksPerSecond ticks   *)
(* to the second, and the model keeps every timestamp as its age and every *)
(* sleep as the ticks it has left.  The TTL caches and the snapshot store  *)
(* work in multiples of 3600 s: `hour` counts whole hours.  Both clocks    *)
(* only move forward.                                                      *)
(***************************************************************************)
EXTENDS Integers, Sequences, FiniteSets, TLC

(***************************************************************************)
(* Bounds of the model.                                                    *)
(***************************************************************************)
NumThreads == 3
NumCallers == 1
TicksPerSecond == 2
NumKeys == 2
NumFixtures == 1
NumReaders == 1
MaxFetches == 2
MaxBatch == 3
MaxBets == 2
MaxOptions == 1
NumRivals == 1
MaxGoals == 3
NumClients == 3
MaxQueued == 4

(***************************************************************************)
(* Program constants.                                                      *)
(***************************************************************************)
MAX_REQUESTS_PER_SECOND == 8
RETRY_DELAY == 2
max_retries == 3
ERROR_DELAY == 1
\* Durations in hours: 7200 s, 3600 s, 7200 s, and the 3600 s that
\* get_filtered_fixtures_from_cache adds to the last.
CACHE_DURATION == 2
API_CACHE_DURATION == 1
FIXTURES_CACHE_DURATION == 2
EXPIRY_GRACE == 1

\* The bet ids of the three markets.
GOALS_BET_ID == 5
DOUBLE_CHANCE_BET_ID == 12
MATCH_WINNER_BET_ID == 1
\* executor = ThreadPoolExecutor(max_workers=5)
max_workers == 5

Min(a, b) == IF a < b THEN a ELSE b
Max(a, b) == IF a > b THEN a ELSE b

\* The threads of the process: the executor's workers and the threads that
\* serve requests.  Callers are the ones followed through api_get.
Threads == 1..NumThreads
Callers == 1..Min(NumCallers, NumThreads)
NoThread == 0

VARIABLES
    request_times,    \* request_times["global"], each timestamp t kept as its
                      \* age now - t in ticks (all the code computes from it),
                      \* an age of a second or more kept as one second
    rate_limit_lock,  \* the thread holding rate_limit_lock, or NoThread
    pc,               \* where each thread is inside api_get
    attempt,          \* api_get's loop variable (0-based)
    sleepLeft,        \* ticks until the thread's time.sleep() may return
    result,           \* what the thread's api_get call gave its caller
    \* history variables (read by the properties only)
    acq_log,          \* ages of the timestamps recorded in the 1-second
                      \* window that ends at the newest recorded one
    acqCount,         \* wait_for_rate_limit() calls finished in this api_get call
    netCount,         \* requests.get() attempts made in this api_get call
    lastOutcome,      \* the outcome of the call's latest attempt
    sleepDur,         \* seconds given to api_get's latest time.sleep()
    slept,            \* ticks that sleep has lasted, up to the ticks asked for
    govSlept,         \* the wait_for_rate_limit() before this attempt slept
    afterFail         \* attempts made after the call's first failure that is
                      \* neither a 200 nor a 429 (-1: no such failure yet)

govVars == <<request_times, rate_limit_lock, pc, attempt, sleepLeft, result,
             acq_log, acqCount, netCount, lastOutcome, sleepDur, slept,
             govSlept, afterFail>>

VARIABLES
    category,         \* which of the three cache dictionaries cache_dict is:
                      \* that of the first place to use it
    cache_dict,       \* the dictionary: key -> (data, timestamp), the timestamp
                      \* kept as its age in hours, an age past every TTL kept
                      \* as the largest TTL
    got,              \* the latest get_cached_data call, what it returned
                      \* and what api_get gave if it was called, until the
                      \* next step
    setLog            \* history: key -> the data last set and the hours since

cacheVars == <<category, cache_dict, got, setLog>>

VARIABLES
    upstream_status,        \* fixture -> the status upstream reports for it now
    fetched,                \* the lists /fixtures has returned, in order: each
                            \* is new fixture dicts, here fixture -> its status
    with_advice_odd,        \* the fixture dicts that carry an advice_odd key
    fixtures_by_date_cache, \* date -> (the cached list, its age in hours)
    filtered_fixtures_cache,\* date -> the published entry: its list of fixture
                            \* dicts, its age in hours, and (history) whether
                            \* the list was whole when it was published
    cache_lock,             \* the thread holding cache_lock, or NoThread
    sched,                  \* the populating thread: where it is, which day
                            \* of the window it is at, hours of sleep left
    build,                  \* per thread, the filter_fixtures_for_date call it
                            \* is in: the raw list, the futures not yet
                            \* collected, filtered_fixtures so far
    reader,                 \* per request thread, the request it is serving
    calls,                  \* history: per request thread, the paths api_get
                            \* was called with on behalf of its request
    replied                 \* the request just answered and the JSON returned
                            \* for it, until the next step

storeVars == <<upstream_status, fetched, with_advice_odd, fixtures_by_date_cache,
               filtered_fixtures_cache, cache_lock, sched, build, reader,
               calls, replied>>

VARIABLES
    single,   \* the latest process_single_fixture call: the fixture it was
              \* given, what the lookups came to, the steps it took and
              \* what it returned
    batch,    \* a filter_fixtures_for_date call on a list of fixtures: the
              \* futures not yet collected and filtered_fixtures so far
    priced,   \* the latest get_advice_odd call on a combo advice: the
              \* market data of the two legs and what it returned
    advised,  \* the latest get_advice_odd call on an advice text: the team
              \* names, the text, the market data and what it came to
    checked,  \* the latest check_prediction_result call: the score, the
              \* team names, the text and what it returned
    task,     \* per worker thread, the process_single_fixture call it is
              \* in: the upstream fetch it waits for and the fetches made
    dates,    \* the populating thread's loop over the dates, batch being
              \* the batch of the date it is at: the pass, the date, the
              \* date published last, and the dates of abandoned batches
              \* whose futures still run
    pool      \* the executor: its queue of submitted tasks, the tasks its
              \* worker threads are executing, by the thread that
              \* submitted them, and the futures each thread waits for

procVars == <<single, batch, priced, advised, checked, task, dates, pool>>

vars == <<govVars, cacheVars, storeVars, procVars>>

\* What the steps of one part of the program leave alone.
notGov == <<cacheVars, storeVars, procVars>>
notCache == <<govVars, storeVars, procVars>>
notStore == <<govVars, cacheVars, procVars>>
notProc == <<govVars, cacheVars, storeVars>>

(***************************************************************************)
(* wait_for_rate_limit (src/app.py 48-66)                                  *)
(***************************************************************************)
\* [t for t in request_times[endpoint] if now - t < 1.0]
Prune(times) == SelectSeq(times, LAMBDA a : a < TicksPerSecond)

\* len(request_times[endpoint]) >= MAX_REQUESTS_PER_SECOND
AtLimitOffByOne(times) == Len(times) > MAX_REQUESTS_PER_SECOND
AtLimit(times) == Len(times) >= MAX_REQUESTS_PER_SECOND

\* sleep_time = 1.0 - (now - request_times[endpoint][0])
SleepTime(times) == TicksPerSecond - times[1]

\* request_times[endpoint].append(now)
RecordNow(times) == Append(times, 0)

\* The history of recorded timestamps, cut to the 1-second window that ends
\* at the newest one: timestamps are recorded in nondecreasing order, so an
\* older one shares no 1-second window with any later one.
Record(log) == Append(SelectSeq(log, LAMBDA a : a < TicksPerSecond), 0)

\* The thread takes the lock, reads the clock and prunes.  Below the ceiling
\* it records the timestamp and leaves; at the ceiling it goes to sleep
\* with the lock held.
GovEnter(t) ==
    /\ pc[t] = "wait"
    /\ rate_limit_lock = NoThread
    /\ LET pruned == Prune(request_times) IN
       IF AtLimit(pruned) /\ SleepTime(pruned) > 0
       THEN /\ request_times' = pruned
            /\ rate_limit_lock' = t
            /\ sleepLeft' = [sleepLeft EXCEPT ![t] = SleepTime(pruned)]
            /\ pc' = [pc EXCEPT ![t] = "gov_sleep"]
            /\ govSlept' = [govSlept EXCEPT ![t] = TRUE]
            /\ UNCHANGED <<acq_log, acqCount>>
       ELSE /\ request_times' = RecordNow(pruned)
            /\ acq_log' = Record(acq_log)
            /\ acqCount' = [acqCount EXCEPT ![t] = @ + 1]
            /\ pc' = [pc EXCEPT ![t] = "request"]
            /\ UNCHANGED <<rate_limit_lock, sleepLeft, govSlept>>
    /\ UNCHANGED <<attempt, result, netCount, lastOutcome, sleepDur, slept,
                   afterFail>>
    /\ UNCHANGED notGov

\* time.sleep(sleep_time) is over: the thread reads the clock again, prunes
\* again, records the new timestamp and releases the lock.
GovWake(t) ==
    /\ pc[t] = "gov_sleep"
    /\ sleepLeft[t] = 0
    /\ request_times' = RecordNow(Prune(request_times))
    /\ acq_log' = Record(acq_log)
    /\ acqCount' = [acqCount EXCEPT ![t] = @ + 1]
    /\ rate_limit_lock' = NoThread
    /\ pc' = [pc EXCEPT ![t] = "request"]
    /\ UNCHANGED <<attempt, sleepLeft, result, netCount, lastOutcome,
                   sleepDur, slept, govSlept, afterFail>>
    /\ UNCHANGED notGov

\* A thread calls wait_for_rate_limit().
Arrive(t) ==
    /\ pc[t] = "idle"
    /\ pc' = [pc EXCEPT ![t] = "wait"]
    /\ UNCHANGED <<request_times, rate_limit_lock, attempt, sleepLeft, result,
                   acq_log, acqCount, netCount, lastOutcome, sleepDur, slept,
                   govSlept, afterFail>>
    /\ UNCHANGED notGov

\* wait_for_rate_limit() has returned to the thread.
Leave(t) ==
    /\ pc[t] = "request"
    /\ pc' = [pc EXCEPT ![t] = "idle"]
    /\ acqCount' = [acqCount EXCEPT ![t] = 0]
    /\ govSlept' = [govSlept EXCEPT ![t] = FALSE]
    /\ UNCHANGED <<request_times, rate_limit_lock, attempt, sleepLeft, result,
                   acq_log, netCount, lastOutcome, sleepDur, slept, afterFail>>
    /\ UNCHANGED notGov

(***************************************************************************)
(* api_get (src/app.py 99-127)                                             *)
(***************************************************************************)
\* What one requests.get() attempt can come to: a 200 whose body parses, a
\* 200 whose body does not (r.json() raises), a 429, another status, or an
\* exception of the transport (timeout, connection error).
Outcomes == {"200", "200_badjson", "429", "other", "transport_error"}
Raising == {"200_badjson", "transport_error"}

\* for attempt in range(max_retries)
InRange(a) == a < max_retries

\* Every iteration of the loop starts with wait_for_rate_limit().
LoopTopSkipsGovernor == "request"
LoopTop == "wait"

\* time.sleep(RETRY_DELAY * (attempt + 1))
BackoffDelayFlat(a) == RETRY_DELAY
BackoffDelay(a) == RETRY_DELAY * (a + 1)

\* What api_get does with an attempt's outcome: the if/elif/else on the
\* status code inside the try, and the except Exception handler.
DispositionNarrowExcept(o, a) ==
    CASE o = "200" -> "return_response"
      [] o = "429" -> IF a < max_retries - 1 THEN "backoff" ELSE "return_none"
      [] o = "other" -> "return_none"
      [] o = "transport_error" -> IF a < max_retries - 1 THEN "pause" ELSE "return_none"
      [] OTHER -> "raise"
DispositionRetryStatus(o, a) ==
    CASE o = "200" -> "return_response"
      [] o = "429" -> IF a < max_retries - 1 THEN "backoff" ELSE "return_none"
      [] OTHER -> IF a < max_retries - 1 THEN "pause" ELSE "return_none"
Disposition(o, a) ==
    CASE o = "200" -> "return_response"
      [] o = "429" -> IF a < max_retries - 1 THEN "backoff" ELSE "return_none"
      [] o = "other" -> "return_none"
      [] o \in Raising -> IF a < max_retries - 1 THEN "pause" ELSE "return_none"

\* api_get(path, params) is entered: the loop variable is set and the first
\* iteration, if there is one, begins.
api_get_enter(t) ==
    /\ pc[t] \in {"idle", "done"}
    /\ attempt' = [attempt EXCEPT ![t] = 0]
    /\ pc' = [pc EXCEPT ![t] = IF InRange(0) THEN LoopTop ELSE "done"]
    /\ result' = [result EXCEPT ![t] = IF InRange(0) THEN "pending" ELSE "None"]
    /\ acqCount' = [acqCount EXCEPT ![t] = 0]
    /\ netCount' = [netCount EXCEPT ![t] = 0]
    /\ lastOutcome' = [lastOutcome EXCEPT ![t] = "none"]
    /\ sleepDur' = [sleepDur EXCEPT ![t] = 0]
    /\ slept' = [slept EXCEPT ![t] = 0]
    /\ govSlept' = [govSlept EXCEPT ![t] = FALSE]
    /\ afterFail' = [afterFail EXCEPT ![t] = -1]
    /\ UNCHANGED <<request_times, rate_limit_lock, sleepLeft, acq_log>>

\* A caller starts api_get(path, params).
ApiCall(t) ==
    /\ api_get_enter(t)
    /\ UNCHANGED notGov

\* The count of attempts after the first failure: -1 until the first
\* failure, 0 at it, one more with every later attempt.
Bump(n, failsNow) == IF n >= 0 THEN n + 1 ELSE IF failsNow THEN 0 ELSE -1

\* requests.get(...) and what api_get does with what came back.
Request(t) ==
    /\ pc[t] = "request"
    /\ \E o \in Outcomes :
         LET d == Disposition(o, attempt[t]) IN
         /\ lastOutcome' = [lastOutcome EXCEPT ![t] = o]
         /\ netCount' = [netCount EXCEPT ![t] = @ + 1]
         /\ afterFail' = [afterFail EXCEPT ![t] =
                             Bump(@, o \in {"other", "transport_error"})]
         /\ govSlept' = [govSlept EXCEPT ![t] = FALSE]
         /\ slept' = [slept EXCEPT ![t] = 0]
         /\ CASE d = "return_response" ->
                   /\ result' = [result EXCEPT ![t] = "response"]
                   /\ pc' = [pc EXCEPT ![t] = "done"]
                   /\ UNCHANGED <<sleepLeft, sleepDur>>
              [] d = "return_none" ->
                   /\ result' = [result EXCEPT ![t] = "None"]
                   /\ pc' = [pc EXCEPT ![t] = "done"]
                   /\ UNCHANGED <<sleepLeft, sleepDur>>
              [] d = "raise" ->
                   /\ result' = [result EXCEPT ![t] = "raised"]
                   /\ pc' = [pc EXCEPT ![t] = "done"]
                   /\ UNCHANGED <<sleepLeft, sleepDur>>
              [] d = "backoff" ->
                   /\ sleepDur' = [sleepDur EXCEPT ![t] = BackoffDelay(attempt[t])]
                   /\ sleepLeft' = [sleepLeft EXCEPT ![t] =
                                       BackoffDelay(attempt[t]) * TicksPerSecond]
                   /\ pc' = [pc EXCEPT ![t] = "sleep"]
                   /\ UNCHANGED result
              [] d = "pause" ->
                   /\ sleepDur' = [sleepDur EXCEPT ![t] = ERROR_DELAY]
                   /\ sleepLeft' = [sleepLeft EXCEPT ![t] =
                                       ERROR_DELAY * TicksPerSecond]
                   /\ pc' = [pc EXCEPT ![t] = "sleep"]
                   /\ UNCHANGED result
    /\ UNCHANGED <<request_times, rate_limit_lock, attempt, acq_log, acqCount>>
    /\ UNCHANGED notGov

\* time.sleep(...) is over and `continue` takes the loop to its next
\* iteration, or past its end to the final return None.
Continue(t) ==
    /\ pc[t] = "sleep"
    /\ sleepLeft[t] = 0
    /\ attempt' = [attempt EXCEPT ![t] = @ + 1]
    /\ IF InRange(attempt[t] + 1)
       THEN /\ pc' = [pc EXCEPT ![t] = LoopTop]
            /\ UNCHANGED result
       ELSE /\ pc' = [pc EXCEPT ![t] = "done"]
            /\ result' = [result EXCEPT ![t] = "None"]
    /\ UNCHANGED <<request_times, rate_limit_lock, sleepLeft, acq_log,
                   acqCount, netCount, lastOutcome, sleepDur, slept,
                   govSlept, afterFail>>
    /\ UNCHANGED notGov

\* One tick of the clock passes: every recorded timestamp is a tick older
\* and every sleeper a tick nearer its waking.
Older(times) == [i \in DOMAIN times |-> Min(times[i] + 1, TicksPerSecond)]

Tick ==
    /\ request_times' = Older(request_times)
    /\ acq_log' = Older(acq_log)
    /\ sleepLeft' = [t \in Threads |-> Max(sleepLeft[t] - 1, 0)]
    /\ slept' = [t \in Threads |->
                    IF pc[t] = "sleep"
                    THEN Min(slept[t] + 1, sleepDur[t] * TicksPerSecond)
                    ELSE slept[t]]
    /\ UNCHANGED <<rate_limit_lock, pc, attempt, result, acqCount, netCount,
                   lastOutcome, sleepDur, govSlept, afterFail>>
    /\ UNCHANGED notGov

InitGov ==
    /\ request_times = <<>>
    /\ rate_limit_lock = NoThread
    /\ pc = [t \in Threads |-> "idle"]
    /\ attempt = [t \in Threads |-> 0]
    /\ sleepLeft = [t \in Threads |-> 0]
    /\ result = [t \in Threads |-> "none"]
    /\ acq_log = <<>>
    /\ acqCount = [t \in Threads |-> 0]
    /\ netCount = [t \in Threads |-> 0]
    /\ lastOutcome = [t \in Threads |-> "none"]
    /\ sleepDur = [t \in Threads |-> 0]
    /\ slept = [t \in Threads |-> 0]
    /\ govSlept = [t \in Threads |-> FALSE]
    /\ afterFail = [t \in Threads |-> -1]

(***************************************************************************)
(* The TTL caches: get_cached_data, set_cached_data (src/app.py 68-78) and *)
(* the places that call them.                                              *)
(***************************************************************************)
Keys == 1..NumKeys
\* What api_get can give when asked for a key: None, an empty response, or
\* the payload of that key.
None == <<"None", 0>>
ApiResults(key) == {None, <<"empty", 0>>, <<"payload", key>>}
\* Python's truth value of an api_get result: `if result:`.
TruthyUnlessNone(data) == data # None
Truthy(data) == data[1] = "payload"

\* The largest TTL any call passes: an older entry misses everywhere.
LongestTTL == CACHE_DURATION * 10

\* if key in cache_dict: cached_data, timestamp = cache_dict[key]
\*     if datetime.now().timestamp() - timestamp < duration: return cached_data
\* return None
get_cached_dataInclusive(dict, key, duration) ==
    IF key \in DOMAIN dict /\ dict[key].age <= duration
    THEN dict[key].data
    ELSE None
get_cached_data(dict, key, duration) ==
    IF key \in DOMAIN dict /\ dict[key].age < duration
    THEN dict[key].data
    ELSE None

\* The dictionary as get_cached_data leaves it: the function only reads it,
\* an entry past its duration stays where it is.
after_get_cached_dataEvicts(dict, key, duration) ==
    IF key \in DOMAIN dict /\ dict[key].age >= duration
    THEN [k \in DOMAIN dict \ {key} |-> dict[k]]
    ELSE dict
after_get_cached_data(dict, key, duration) == dict

\* cache_dict[key] = (data, datetime.now().timestamp())
set_cached_data(dict, key, data) ==
    [k \in DOMAIN dict \cup {key} |->
        IF k = key THEN [data |-> data, age |-> 0] ELSE dict[k]]

\* The places that read a cache, by the function they are in.
Sites == {"get_fixtures_by_date", "process_single_fixture", "get_advice_odd",
          "prepare_comparison_single", "api_fixtures", "process_finished_fixture"}

\* The dictionary each place reads.
SiteCache(s) ==
    CASE s = "get_fixtures_by_date" -> "fixtures_by_date_cache"
      [] s = "get_advice_odd" -> "odds_cache"
      [] OTHER -> "predictions_cache"

\* The duration each place passes to get_cached_data.
SiteDurationShortInApi(s) ==
    CASE s = "get_fixtures_by_date" -> API_CACHE_DURATION
      [] s = "api_fixtures" -> API_CACHE_DURATION
      [] s = "process_finished_fixture" -> CACHE_DURATION * 10
      [] OTHER -> CACHE_DURATION
SiteDuration(s) ==
    CASE s = "get_fixtures_by_date" -> API_CACHE_DURATION
      [] s = "process_finished_fixture" -> CACHE_DURATION * 10
      [] OTHER -> CACHE_DURATION

\* Whether the place calls api_get on a miss and stores a truthy result;
\* api_fixtures only reads.
SiteFetchesAlways(s) == TRUE
SiteFetches(s) == s # "api_fixtures"

Logged(log, key) == IF key \in DOMAIN log THEN <<log[key]>> ELSE <<>>

\* One place looks a key up: get_cached_data, and on a miss, where the place
\* fetches, api_get and set_cached_data of a truthy result.
Lookup(s, k) ==
    /\ category \in {"none", SiteCache(s)}
    /\ category' = SiteCache(s)
    /\ LET r == get_cached_data(cache_dict, k, SiteDuration(s))
           read == after_get_cached_data(cache_dict, k, SiteDuration(s))
           g == [site |-> s, key |-> k, duration |-> SiteDuration(s),
                 result |-> r, logged |-> Logged(setLog, k),
                 fetched |-> <<>>]
       IN
       IF ~Truthy(r) /\ SiteFetches(s)
       THEN \E data \in ApiResults(k) :
              /\ got' = <<[g EXCEPT !.fetched = <<data>>]>>
              /\ IF Truthy(data)
                 THEN /\ cache_dict' = set_cached_data(read, k, data)
                      /\ setLog' = [x \in DOMAIN setLog \cup {k} |->
                                       IF x = k THEN [data |-> data, age |-> 0]
                                       ELSE setLog[x]]
                 ELSE /\ cache_dict' = read
                      /\ UNCHANGED setLog
       ELSE /\ got' = <<g>>
            /\ cache_dict' = read
            /\ UNCHANGED setLog
    /\ UNCHANGED notCache

\* An hour passes: every entry is an hour older, up to the age `cap` past
\* which it misses anyway.
AgedTo(dict, cap) ==
    [k \in DOMAIN dict |->
        [data |-> dict[k].data, age |-> Min(dict[k].age + 1, cap)]]
Aged(dict) == AgedTo(dict, LongestTTL)

HourTick ==
    /\ cache_dict' = Aged(cache_dict)
    /\ setLog' = Aged(setLog)
    /\ got' = <<>>
    /\ UNCHANGED category
    /\ UNCHANGED notCache

InitCache ==
    /\ category = "none"
    /\ cache_dict = <<>>
    /\ got = <<>>
    /\ setLog = <<>>

(***************************************************************************)
(* The snapshot store, the thread that populates it and the read requests  *)
(* (src/app.py 132-250, 511-579, 898-1027).  Here the hour is the unit of  *)
(* time.  Whether a predictions or odds lookup hits, and what upstream     *)
(* answers, is left open: every answer is possible at every lookup.        *)
(***************************************************************************)
Fixtures == 1..NumFixtures
Readers == 1..NumReaders
\* The thread of initial_cache_population and update_fixtures_cache.
Scheduler == NumReaders + 1
Builders == Readers \cup {Scheduler}

\* range(-1, 3): yesterday, today and the two days after.
rangeClosed(a, b) == a..b
range(a, b) == a..(b - 1)
DayOffsets == range(-1, 3)
FirstDay == CHOOSE d \in DayOffsets : \A e \in DayOffsets : d <= e
LastDay == CHOOSE d \in DayOffsets : \A e \in DayOffsets : e <= d

\* Upstream: the fixtures are all played today; the other days have none.
FixturesOn(d) == IF d = 0 THEN Fixtures ELSE {}

\* The date requests ask for: today.
RequestDates == {0}

\* status in ["FT", "AET", "PEN"]
TerminalFullTimeOnly == {"FT"}
Terminal == {"FT", "AET", "PEN"}

\* A fixture dict: the list it came in and its fixture id; its status is
\* the one upstream reported when the list was fetched.
Status(rec) == fetched[rec[1]][rec[2]]

\* What a lookup of predictions and odds can come to for one fixture:
\* predictions cached or not; api_get("/predictions") giving a payload or
\* not; the payload carrying an advice (other than the no-pick dash) or
\* not; the odds get_advice_odd needs cached or not; get_advice_odd finding
\* a price or None.
EnvAnswers == [pred_cached : BOOLEAN, pred_api : BOOLEAN, advice : BOOLEAN,
               odds_cached : BOOLEAN, price : BOOLEAN]

\* The predictions lookup of the place `site` (the function it is in):
\* whether pred_raw is truthy in the end, and the api_get calls made.
PredLookup(site, e) ==
    [truthy |-> e.pred_cached \/ (SiteFetches(site) /\ e.pred_api),
     calls |-> IF ~e.pred_cached /\ SiteFetches(site)
               THEN {"/predictions"} ELSE {}]

\* get_advice_odd(fixture, advice): the price or None, and the api_get
\* calls of its odds lookups.
get_advice_odd(e) ==
    [price |-> e.price,
     calls |-> IF e.odds_cached THEN {} ELSE {"/odds"}]

\* process_single_fixture(fixture): the fixture or None, and the calls.
process_single_fixtureKeepsFinished(status, e) ==
    LET pred == PredLookup("process_single_fixture", e) IN
    IF ~pred.truthy \/ ~e.advice THEN [result |-> FALSE, calls |-> pred.calls]
    ELSE [result |-> get_advice_odd(e).price,
          calls |-> pred.calls \cup get_advice_odd(e).calls]
process_single_fixture(status, e) ==
    LET pred == PredLookup("process_single_fixture", e) IN
    IF status \in Terminal THEN [result |-> FALSE, calls |-> {}]
    ELSE IF ~pred.truthy \/ ~e.advice THEN [result |-> FALSE, calls |-> pred.calls]
    ELSE [result |-> get_advice_odd(e).price,
          calls |-> pred.calls \cup get_advice_odd(e).calls]

\* process_finished_fixture(fixture): the fixture, now carrying advice,
\* advice_odd and prediction_won, or None, and the calls.
process_finished_fixture(e) ==
    LET pred == PredLookup("process_finished_fixture", e) IN
    IF ~pred.truthy \/ ~e.advice THEN [result |-> FALSE, calls |-> pred.calls]
    ELSE [result |-> get_advice_odd(e).price,
          calls |-> pred.calls \cup get_advice_odd(e).calls]

\* The body of api_fixtures' loop for one fixture that is not finished:
\* whether it writes fixture["advice_odd"], and the calls.
api_fixtures_item(e) ==
    LET pred == PredLookup("api_fixtures", e) IN
    IF pred.truthy /\ e.advice
    THEN [priced |-> get_advice_odd(e).price,
          calls |-> pred.calls \cup get_advice_odd(e).calls]
    ELSE [priced |-> FALSE, calls |-> pred.calls]

\* get_fixtures_by_date(date): `gen` is the list it returns (0: None or
\* empty) and `called` whether it called api_get.  A cached list is
\* returned as it is; a fetched one holds new fixture dicts with the
\* statuses of the moment and is cached if it is not empty.  Upstream
\* gives a list at most MaxFetches times.
get_fixtures_by_date(date, gen, called) ==
    LET cached == get_cached_data(fixtures_by_date_cache, date, API_CACHE_DURATION) IN
    IF Truthy(cached)
    THEN /\ gen = cached[2]
         /\ called = FALSE
         /\ UNCHANGED <<fixtures_by_date_cache, fetched>>
    ELSE /\ called = TRUE
         /\ \/ /\ gen = 0
               /\ UNCHANGED <<fixtures_by_date_cache, fetched>>
            \/ /\ FixturesOn(date) # {}
               /\ Len(fetched) < MaxFetches
               /\ gen = Len(fetched) + 1
               /\ fetched' = Append(fetched, upstream_status)
               /\ fixtures_by_date_cache' =
                      set_cached_data(fixtures_by_date_cache, date, <<"payload", gen>>)

\* A thread's filter_fixtures_for_date call.
NoBuild == [stage |-> "none", date |-> 0, gen |-> 0, pending |-> {},
            filtered_fixtures |-> <<>>]
StartBuild(date) == [NoBuild EXCEPT !.stage = "fetch", !.date = date]

\* The api_get calls a request thread makes are noted against its request.
Noted(b, paths) ==
    IF b \in Readers THEN [calls EXCEPT ![b] = @ \cup paths] ELSE calls

\* all_fixtures = get_fixtures_by_date(date_str); none: return []; else
\* every fixture is submitted to the executor and filtered_fixtures = [].
FilterFetch(b) ==
    /\ build[b].stage = "fetch"
    /\ \E gen \in 0..MaxFetches, called \in BOOLEAN :
         /\ get_fixtures_by_date(build[b].date, gen, called)
         /\ build' = [build EXCEPT ![b] =
                IF gen = 0
                THEN [@ EXCEPT !.stage = "returned"]
                ELSE [@ EXCEPT !.stage = "collect", !.gen = gen,
                               !.pending = FixturesOn(build[b].date)]]
         /\ calls' = Noted(b, IF called THEN {"/fixtures"} ELSE {})
    /\ UNCHANGED <<upstream_status, with_advice_odd, filtered_fixtures_cache,
                   cache_lock, sched, reader>>
    /\ replied' = <<>>
    /\ UNCHANGED notStore

\* The for loop over as_completed(futures) has run through every future.
LoopDoneEarly(pending) == TRUE
LoopDone(pending) == pending = {}

\* One future completes, process_single_fixture having run on its fixture,
\* and the loop appends the result if there is one.
FilterCollect(b, f) ==
    /\ build[b].stage = "collect"
    /\ f \in build[b].pending
    /\ LET rec == <<build[b].gen, f>> IN
       \E done \in {process_single_fixture(Status(rec), e) : e \in EnvAnswers} :
         /\ build' = [build EXCEPT
                ![b].pending = @ \ {f},
                ![b].filtered_fixtures = IF done.result THEN Append(@, rec) ELSE @]
         /\ calls' = Noted(b, done.calls)
    /\ UNCHANGED <<upstream_status, fetched, with_advice_odd,
                   fixtures_by_date_cache, filtered_fixtures_cache,
                   cache_lock, sched, reader>>
    /\ replied' = <<>>
    /\ UNCHANGED notStore

\* filter_fixtures_for_date has returned filtered_fixtures to its caller.
Returned(b) ==
    \/ build[b].stage = "returned"
    \/ build[b].stage = "collect" /\ LoopDone(build[b].pending)

\* age < FIXTURES_CACHE_DURATION + 3600
FreshInclusive(entry) == entry.age <= FIXTURES_CACHE_DURATION + EXPIRY_GRACE
Fresh(entry) == entry.age < FIXTURES_CACHE_DURATION + EXPIRY_GRACE

\* The module is run as the program: initial_cache_population starts, and
\* requests are served only after it.
Main ==
    /\ sched.pc = "boot"
    /\ sched' = [sched EXCEPT !.pc = "filter", !.phase = "initial", !.day = FirstDay]
    /\ build' = [build EXCEPT ![Scheduler] = StartBuild(FirstDay)]
    /\ UNCHANGED <<upstream_status, fetched, with_advice_odd,
                   fixtures_by_date_cache, filtered_fixtures_cache,
                   cache_lock, reader, calls>>
    /\ replied' = <<>>
    /\ UNCHANGED notStore

\* The module is imported by a server: the block under
\* `if __name__ == "__main__"` does not run, nothing populates the store,
\* and requests are served.
Import ==
    /\ sched.pc = "boot"
    /\ sched' = [sched EXCEPT !.pc = "off", !.phase = "imported"]
    /\ UNCHANGED <<upstream_status, fetched, with_advice_odd,
                   fixtures_by_date_cache, filtered_fixtures_cache,
                   cache_lock, build, reader, calls>>
    /\ replied' = <<>>
    /\ UNCHANGED notStore

Serving == sched.phase \in {"cycle", "imported"}

\* filtered = filter_fixtures_for_date(date_str) has returned and the
\* thread enters `with cache_lock:`.
SchedAcquire ==
    /\ sched.pc = "filter"
    /\ Returned(Scheduler)
    /\ cache_lock = NoThread
    /\ cache_lock' = Scheduler
    /\ sched' = [sched EXCEPT !.pc = "publish"]
    /\ UNCHANGED <<upstream_status, fetched, with_advice_odd,
                   fixtures_by_date_cache, filtered_fixtures_cache, build,
                   reader, calls>>
    /\ replied' = <<>>
    /\ UNCHANGED notStore

\* filtered_fixtures_cache[date_str] = {'fixtures': filtered, 'timestamp': now}
PublishUnlessEmpty(store, date, made) ==
    IF made.filtered_fixtures = <<>> /\ date \in DOMAIN store THEN store
    ELSE [d \in DOMAIN store \cup {date} |->
             IF d = date
             THEN [fixtures |-> made.filtered_fixtures, age |-> 0,
                   whole |-> made.pending = {}]
             ELSE store[d]]
Publish(store, date, made) ==
    [d \in DOMAIN store \cup {date} |->
        IF d = date
        THEN [fixtures |-> made.filtered_fixtures, age |-> 0,
              whole |-> made.pending = {}]
        ELSE store[d]]

\* The populating thread is done with the date it was at, in the pass `s`:
\* on to the next day of the window, or after the last day: from
\* initial_cache_population on to the serving of requests and the first
\* cycle of update_fixtures_cache, and from a cycle to
\* time.sleep(FIXTURES_CACHE_DURATION).
NextDate(s) ==
    IF s.day < LastDay
    THEN [s EXCEPT !.pc = "filter", !.day = @ + 1]
    ELSE IF s.phase = "initial"
    THEN [s EXCEPT !.pc = "filter", !.phase = "cycle", !.day = FirstDay,
                   !.published = <<>>]
    ELSE [s EXCEPT !.pc = "sleep", !.sleepLeft = FIXTURES_CACHE_DURATION]

\* The entry is written and the lock released; then the next day of the
\* window, or after the last day: from initial_cache_population on to the
\* serving of requests and the first cycle of update_fixtures_cache, and
\* from a cycle to time.sleep(FIXTURES_CACHE_DURATION).
SchedPublish ==
    /\ sched.pc = "publish"
    /\ filtered_fixtures_cache' =
           Publish(filtered_fixtures_cache, build[Scheduler].date, build[Scheduler])
    /\ cache_lock' = NoThread
    /\ sched' = NextDate([sched EXCEPT !.published = Append(@, sched.day)])
    /\ build' = [build EXCEPT ![Scheduler] =
           IF sched'.pc = "filter" THEN StartBuild(sched'.day) ELSE NoBuild]
    /\ UNCHANGED <<upstream_status, fetched, with_advice_odd,
                   fixtures_by_date_cache, reader, calls>>
    /\ replied' = <<>>
    /\ UNCHANGED notStore

\* The sleep between cycles is over: the next cycle starts.
SchedWake ==
    /\ sched.pc = "sleep"
    /\ sched.sleepLeft = 0
    /\ sched' = [sched EXCEPT !.pc = "filter", !.day = FirstDay,
                              !.published = <<>>, !.resumed = FALSE]
    /\ build' = [build EXCEPT ![Scheduler] = StartBuild(FirstDay)]
    /\ UNCHANGED <<upstream_status, fetched, with_advice_odd,
                   fixtures_by_date_cache, filtered_fixtures_cache,
                   cache_lock, reader, calls>>
    /\ replied' = <<>>
    /\ UNCHANGED notStore

\* A request thread between requests.
NoRequest == [pc |-> "idle", endpoint |-> "none", date |-> 0, source |-> "none",
              miss |-> "none", built |-> 0, list |-> <<>>, whole |-> TRUE,
              pending |-> {}, out |-> <<>>]

\* return jsonify({"fixtures": ...})
ResponseKeys == {"fixtures"}
JsonWith(out, marked) ==
    [fixtures |-> [j \in DOMAIN out |->
                      [rec |-> out[j], advice_odd |-> out[j] \in marked]],
     keys |-> ResponseKeys]
Json(out) == JsonWith(out, with_advice_odd)

\* The request a thread has answered, with the paths api_get was called
\* with on its behalf and the JSON returned.
Reply(r, req, paths, out) ==
    <<[thread |-> r, endpoint |-> req.endpoint, date |-> req.date,
       source |-> req.source, miss |-> req.miss, built |-> req.built,
       list |-> req.list, calls |-> paths, body |-> Json(out)]>>

\* What get_filtered_fixtures_from_cache does when the store has no fresh
\* entry for the date: return filter_fixtures_for_date(date_str).
OnMissReturnsEmpty == "return_empty"
OnMiss == "filter_on_demand"

\* GET /api/fixtures?date=d: api_fixtures calls
\* get_filtered_fixtures_from_cache(date), which enters `with cache_lock:`.
ApiFixturesAcquire(r, d) ==
    /\ Serving
    /\ reader[r].pc = "idle"
    /\ cache_lock = NoThread
    /\ cache_lock' = r
    /\ reader' = [reader EXCEPT ![r] =
           [NoRequest EXCEPT !.pc = "locked", !.endpoint = "api_fixtures", !.date = d]]
    /\ replied' = <<>>
    /\ calls' = [calls EXCEPT ![r] = {}]
    /\ UNCHANGED <<upstream_status, fetched, with_advice_odd,
                   fixtures_by_date_cache, filtered_fixtures_cache, sched, build>>
    /\ UNCHANGED notStore

\* The holder of cache_lock once get_filtered_fixtures_from_cache has
\* looked the date up: the `with cache_lock:` block ends at the return of
\* a hit, and before the on-demand filtering of a miss.
LockAfterLookupHeldOnMiss(r, hit) == IF hit THEN NoThread ELSE r
LockAfterLookup(r, hit) == NoThread

\* What the store holds once the on-demand filter_fixtures_for_date of a
\* request has returned `made` for `date`: what it held, the list is only
\* returned to the caller.
AfterOnDemandStored(store, date, made) == Publish(store, date, made)
AfterOnDemand(store, date, made) == store

\* Under the lock: a fresh entry for the date gives its list; the lock is
\* left; with no fresh entry the date is filtered on demand.
ApiFixturesLookup(r) ==
    /\ reader[r].pc = "locked"
    /\ cache_lock' = LockAfterLookup(r, reader[r].date \in DOMAIN filtered_fixtures_cache
                                        /\ Fresh(filtered_fixtures_cache[reader[r].date]))
    /\ LET d == reader[r].date
           store == filtered_fixtures_cache IN
       IF d \in DOMAIN store /\ Fresh(store[d])
       THEN /\ reader' = [reader EXCEPT ![r].pc = "serve", ![r].source = "store",
                                        ![r].list = store[d].fixtures,
                                        ![r].whole = store[d].whole]
            /\ UNCHANGED build
       ELSE LET why == IF d \in DOMAIN store THEN "expired" ELSE "absent" IN
            IF OnMiss = "filter_on_demand"
            THEN /\ reader' = [reader EXCEPT ![r].pc = "on_demand",
                                             ![r].source = "on_demand",
                                             ![r].miss = why, ![r].built = 1]
                 /\ build' = [build EXCEPT ![r] = StartBuild(d)]
            ELSE /\ reader' = [reader EXCEPT ![r].pc = "serve",
                                             ![r].source = "on_demand",
                                             ![r].miss = why]
                 /\ UNCHANGED build
    /\ UNCHANGED <<upstream_status, fetched, with_advice_odd,
                   fixtures_by_date_cache, filtered_fixtures_cache, sched,
                   calls>>
    /\ replied' = <<>>
    /\ UNCHANGED notStore

\* The on-demand filter_fixtures_for_date has returned its list.
ApiFixturesOnDemand(r) ==
    /\ reader[r].pc = "on_demand"
    /\ Returned(r)
    /\ reader' = [reader EXCEPT ![r].pc = "serve",
                                ![r].list = build[r].filtered_fixtures,
                                ![r].whole = build[r].pending = {}]
    /\ build' = [build EXCEPT ![r] = NoBuild]
    /\ filtered_fixtures_cache' =
           AfterOnDemand(filtered_fixtures_cache, reader[r].date, build[r])
    /\ UNCHANGED <<upstream_status, fetched, with_advice_odd,
                   fixtures_by_date_cache, cache_lock, sched, calls>>
    /\ replied' = <<>>
    /\ UNCHANGED notStore

\* api_fixtures' loop over the list and its return: a finished fixture is
\* passed over; any other is looked up in the predictions cache, may get
\* its advice_odd written into the fixture dict, and is appended.
ApiFixturesServe(r) ==
    /\ reader[r].pc = "serve"
    /\ LET list == reader[r].list
           shown == {i \in DOMAIN list : Status(list[i]) \notin Terminal}
           upcoming_fixtures == SelectSeq(list, LAMBDA rec : Status(rec) \notin Terminal)
       IN
       \E item \in [shown -> {api_fixtures_item(e) : e \in EnvAnswers}] :
         /\ with_advice_odd' = with_advice_odd \cup
                                   {list[i] : i \in {k \in shown : item[k].priced}}
         /\ replied' = <<[Reply(r, reader[r],
                                 calls[r] \cup UNION {item[i].calls : i \in shown},
                                 upcoming_fixtures)[1]
                           EXCEPT !.body = JsonWith(upcoming_fixtures, with_advice_odd')]>>
    /\ reader' = [reader EXCEPT ![r] = NoRequest]
    /\ calls' = [calls EXCEPT ![r] = {}]
    /\ UNCHANGED <<upstream_status, fetched, fixtures_by_date_cache,
                   filtered_fixtures_cache, cache_lock, sched, build>>
    /\ UNCHANGED notStore

\* GET /api/fixtures/finished?date=d: get_fixtures_by_date(date); with no
\* list, or no finished fixture in it, an empty response; else every
\* finished fixture is submitted to the executor.
ApiFixturesFinished(r, d) ==
    /\ Serving
    /\ reader[r].pc = "idle"
    /\ \E gen \in 0..MaxFetches, called \in BOOLEAN :
         /\ get_fixtures_by_date(d, gen, called)
         /\ LET paths == IF called THEN {"/fixtures"} ELSE {}
                finished_raw == IF gen = 0 THEN {}
                       ELSE {f \in FixturesOn(d) : fetched'[gen][f] \in Terminal}
                req == [NoRequest EXCEPT !.endpoint = "api_fixtures_finished",
                                         !.date = d] IN
            IF finished_raw = {}
            THEN /\ replied' = Reply(r, req, paths, <<>>)
                 /\ UNCHANGED <<reader, calls>>
            ELSE /\ reader' = [reader EXCEPT ![r] =
                        [req EXCEPT !.pc = "finished",
                                    !.pending = {<<gen, f>> : f \in finished_raw}]]
                 /\ calls' = [calls EXCEPT ![r] = paths]
                 /\ replied' = <<>>
    /\ UNCHANGED <<upstream_status, with_advice_odd, filtered_fixtures_cache,
                   cache_lock, sched, build>>
    /\ UNCHANGED notStore

\* One future completes, process_finished_fixture having run on its
\* fixture, and the loop appends the result if there is one.
FinishedCollect(r, rec) ==
    /\ reader[r].pc = "finished"
    /\ rec \in reader[r].pending
    /\ \E done \in {process_finished_fixture(e) : e \in EnvAnswers} :
         /\ with_advice_odd' = IF done.result THEN with_advice_odd \cup {rec}
                               ELSE with_advice_odd
         /\ calls' = Noted(r, done.calls)
         /\ reader' = [reader EXCEPT ![r].pending = @ \ {rec},
                          ![r].out = IF done.result THEN Append(@, rec) ELSE @]
    /\ UNCHANGED <<upstream_status, fetched, fixtures_by_date_cache,
                   filtered_fixtures_cache, cache_lock, sched, build>>
    /\ replied' = <<>>
    /\ UNCHANGED notStore

\* return jsonify({"fixtures": finished_fixtures})
FinishedReturn(r) ==
    /\ reader[r].pc = "finished"
    /\ LoopDone(reader[r].pending)
    /\ replied' = Reply(r, reader[r], calls[r], reader[r].out)
    /\ reader' = [reader EXCEPT ![r] = NoRequest]
    /\ calls' = [calls EXCEPT ![r] = {}]
    /\ UNCHANGED <<upstream_status, fetched, with_advice_odd,
                   fixtures_by_date_cache, filtered_fixtures_cache, cache_lock,
                   sched, build>>
    /\ UNCHANGED notStore

\* Where update_fixtures_cache goes when its try block raises: to the
\* except clause of the loop, which logs and sleeps 300 s.
AfterErrorTerminates == "dead"
AfterError == "recover"

\* An exception leaves filter_fixtures_for_date in the populating thread
\* (future.result() raises what its future raised).  In
\* initial_cache_population the except clause is inside the loop over the
\* dates: the date is passed over; in update_fixtures_cache it is around
\* the cycle: the cycle is given up.
SchedError ==
    /\ sched.pc = "filter"
    /\ build[Scheduler].stage = "collect"
    /\ build[Scheduler].pending # {}
    /\ sched' = IF sched.phase = "initial" THEN NextDate(sched)
                ELSE [sched EXCEPT !.pc = AfterError]
    /\ build' = [build EXCEPT ![Scheduler] =
           IF sched'.pc = "filter" THEN StartBuild(sched'.day) ELSE NoBuild]
    /\ UNCHANGED <<upstream_status, fetched, with_advice_odd,
                   fixtures_by_date_cache, filtered_fixtures_cache,
                   cache_lock, reader, calls>>
    /\ replied' = <<>>
    /\ UNCHANGED notStore

\* time.sleep(300) is over (300 s is less than the unit of this clock):
\* `while True` starts the next cycle.
SchedRecover ==
    /\ sched.pc = "recover"
    /\ sched' = [sched EXCEPT !.pc = "filter", !.day = FirstDay,
                              !.published = <<>>, !.resumed = TRUE]
    /\ build' = [build EXCEPT ![Scheduler] = StartBuild(FirstDay)]
    /\ UNCHANGED <<upstream_status, fetched, with_advice_odd,
                   fixtures_by_date_cache, filtered_fixtures_cache,
                   cache_lock, reader, calls>>
    /\ replied' = <<>>
    /\ UNCHANGED notStore

\* A match ends: upstream reports it finished from now on.
MatchEnds(f) ==
    /\ upstream_status[f] = "NS"
    /\ upstream_status' = [upstream_status EXCEPT ![f] = "FT"]
    /\ UNCHANGED <<fetched, with_advice_odd, fixtures_by_date_cache,
                   filtered_fixtures_cache, cache_lock, sched, build, reader,
                   calls>>
    /\ replied' = <<>>
    /\ UNCHANGED notStore

\* An hour passes: every entry is an hour older, the sleeper an hour nearer
\* its waking.
StoreHour ==
    /\ filtered_fixtures_cache' =
           [d \in DOMAIN filtered_fixtures_cache |->
               [filtered_fixtures_cache[d] EXCEPT
                    !.age = Min(@ + 1, FIXTURES_CACHE_DURATION + EXPIRY_GRACE)]]
    /\ fixtures_by_date_cache' = AgedTo(fixtures_by_date_cache, API_CACHE_DURATION)
    /\ sched' = [sched EXCEPT !.sleepLeft = Max(@ - 1, 0)]
    /\ UNCHANGED <<upstream_status, fetched, with_advice_odd, cache_lock,
                   build, reader, calls>>
    /\ replied' = <<>>
    /\ UNCHANGED notStore

InitStore ==
    /\ upstream_status = [f \in Fixtures |-> "NS"]
    /\ fetched = <<>>
    /\ with_advice_odd = {}
    /\ fixtures_by_date_cache = <<>>
    /\ filtered_fixtures_cache = <<>>
    /\ cache_lock = NoThread
    /\ sched = [pc |-> "boot", phase |-> "boot", day |-> FirstDay, sleepLeft |-> 0,
                published |-> <<>>, resumed |-> FALSE]
    /\ build = [b \in Builders |-> NoBuild]
    /\ reader = [r \in Readers |-> NoRequest]
    /\ calls = [r \in Readers |-> {}]
    /\ replied = <<>>

(***************************************************************************)
(* The processing of one fixture (process_single_fixture, 163-213), of a   *)
(* list of fixtures (filter_fixtures_for_date, 216-250) and the pricing of *)
(* a combo advice (get_advice_odd, 253-341), on their own: every call is   *)
(* one step from its arguments, and from what the caches and upstream      *)
(* answer, to what it returns.                                             *)
(***************************************************************************)

\* A fixture as process_single_fixture gets it, with what its lookups will
\* meet:
\*   shape         "ok": a dict with fixture.id; "no_id": fixture.id is
\*                 missing or 0; "no_fixture_dict": the value under
\*                 "fixture" is null
\*   status        fixture.status.short
\*   pred_cached   get_cached_data(predictions_cache, ...) is truthy
\*   pred_api      what api_get("/predictions") returns: a list with a
\*                 prediction, an empty list, or None
\*   advice        predictions.advice of the first prediction: a pick, the
\*                 no-pick dash, nothing, or the value under "predictions"
\*                 is null and reading it raises
\*   market        the advice names a market and an option of it that
\*                 get_advice_odd knows, so that it looks odds up
\*   odds_cached   the odds lookup of get_advice_odd hits
\*   odds_api      api_get("/odds") returns data
\*   odds          what get_advice_odd makes of the data: a price, None, or
\*                 it raises
RecordInputs ==
    [shape : {"ok", "no_id", "no_fixture_dict"},
     skip_finished : BOOLEAN,
     status : {"NS", "FT", "AET", "PEN"},
     pred_cached : BOOLEAN,
     pred_api : {"payload", "empty", "None"},
     advice : {"pick", "dash", "nothing", "raises"},
     market : BOOLEAN,
     odds_cached : BOOLEAN,
     odds_api : BOOLEAN,
     odds : {"price", "None", "raises"}]

\* if not advice or advice == "-"  (the no-pick dash): return None
AdviceUsableNoSentinel(advice) == advice \in {"pick", "dash"}
AdviceUsable(advice) == advice = "pick"

\* get_advice_odd as process_single_fixture calls it: None at once for an
\* advice that names no market it knows; else the odds lookup, the fetch
\* on a miss, the cache write if the fetch gave data, and the price, None
\* or an exception that the data come to.
get_advice_odd_steps(x) ==
    IF ~x.market THEN [result |-> "None", steps |-> <<>>] ELSE
    LET fetch == IF x.odds_cached THEN <<>>
                 ELSE <<"api_get /odds">> \o
                      (IF x.odds_api THEN <<"set_cached_data odds_cache">> ELSE <<>>)
        data == x.odds_cached \/ x.odds_api
    IN [result |-> IF data THEN x.odds ELSE "None",
        steps |-> <<"get_cached_data odds_cache">> \o fetch]

\* process_single_fixture(fixture, skip_finished): what it returns (the
\* fixture, None, or an exception) and the cache and upstream steps it
\* took, in order.  An exception inside the try is logged and None is
\* returned, but the log line reads fixture.get('fixture', {}).get('id')
\* again: when that is what raised, the handler raises too.
process_single_fixture_run(x) ==
    IF x.shape = "no_fixture_dict" THEN [result |-> "raised", steps |-> <<>>]
    ELSE IF x.shape = "no_id" THEN [result |-> "None", steps |-> <<>>]
    ELSE IF x.skip_finished /\ x.status \in Terminal
    THEN [result |-> "None", steps |-> <<>>]
    ELSE
    LET fetch == IF x.pred_cached THEN <<>>
                 ELSE <<"api_get /predictions">> \o
                      (IF x.pred_api = "payload"
                       THEN <<"set_cached_data predictions_cache">> ELSE <<>>)
        pred == <<"get_cached_data predictions_cache">> \o fetch
        pred_raw == x.pred_cached \/ x.pred_api = "payload"
        odd == get_advice_odd_steps(x)
    IN IF ~pred_raw THEN [result |-> "None", steps |-> pred]
       ELSE IF x.advice = "raises" THEN [result |-> "None", steps |-> pred]
       ELSE IF ~AdviceUsable(x.advice) THEN [result |-> "None", steps |-> pred]
       ELSE [result |-> IF odd.result = "price" THEN "fixture" ELSE "None",
             steps |-> pred \o odd.steps]

\* process_single_fixture is called, on any fixture.
ProcessSingle ==
    /\ single = <<>>
    /\ \E x \in RecordInputs :
          single' = <<[input |-> x, result |-> process_single_fixture_run(x).result,
                       steps |-> process_single_fixture_run(x).steps]>>
    /\ UNCHANGED <<batch, priced, advised, checked, task, dates, pool>>
    /\ UNCHANGED notProc

\* Fixtures a list from upstream can hold: one that is accepted, one whose
\* predictions fetch fails, one whose odds fetch fails, one whose
\* predictions raise when read, one finished in each of the three ways,
\* and one whose value under "fixture" is null.
Sound == [shape |-> "ok", skip_finished |-> TRUE, status |-> "NS",
          pred_cached |-> FALSE, pred_api |-> "payload", advice |-> "pick",
          market |-> TRUE, odds_cached |-> FALSE, odds_api |-> TRUE, odds |-> "price"]
BatchRecords ==
    {Sound,
     [Sound EXCEPT !.pred_api = "None"],
     [Sound EXCEPT !.odds_api = FALSE],
     [Sound EXCEPT !.advice = "raises"],
     [Sound EXCEPT !.status = "FT"],
     [Sound EXCEPT !.status = "AET"],
     [Sound EXCEPT !.status = "PEN"],
     [Sound EXCEPT !.shape = "no_fixture_dict"]}

Batches == UNION {[1..n -> BatchRecords] : n \in 0..MaxBatch}

NoBatch == [stage |-> "idle", records |-> <<>>, pending |-> {},
            filtered_fixtures |-> <<>>]

\* filter_fixtures_for_date: all_fixtures is `records`, any list; with
\* none, [] is returned; else each is submitted to the executor.
FilterStart ==
    /\ batch.stage = "idle"
    /\ \E records \in Batches :
          batch' = [stage |-> IF records = <<>> THEN "returned" ELSE "collect",
                    records |-> records, pending |-> DOMAIN records,
                    filtered_fixtures |-> <<>>]
    /\ UNCHANGED <<single, priced, advised, checked, task, dates, pool>>
    /\ UNCHANGED notProc

\* as_completed yields the future of records[i], whichever completes
\* next: future.result() is what process_single_fixture returned, or
\* raises what it raised, and nothing in filter_fixtures_for_date catches
\* that; after the last future filtered_fixtures is returned.
FutureCompletes(i) ==
    /\ batch.stage = "collect"
    /\ i \in batch.pending
    /\ LET done == process_single_fixture_run(batch.records[i]).result IN
       batch' = IF done = "raised"
                THEN [batch EXCEPT !.stage = "raised"]
                ELSE [batch EXCEPT
                        !.pending = @ \ {i},
                        !.filtered_fixtures =
                            IF done = "fixture" THEN Append(@, i) ELSE @,
                        !.stage = IF LoopDone(batch.pending \ {i})
                                  THEN "returned" ELSE @]
    /\ UNCHANGED <<single, priced, advised, checked, task, dates, pool>>
    /\ UNCHANGED notProc
\* One bet of the wanted market in the odds data, as the scan of
\* get_advice_odd meets it: it has no option of the wanted value
\* (<<"none", 0>>), or its first such option has a numeric odd
\* (<<"num", n>>; 0 is the number 0) or one float() raises on (<<"bad", 0>>).
BetScans == {<<"none", 0>>, <<"num", 0>>, <<"num", 2>>, <<"num", 3>>, <<"bad", 0>>}

\* The market data of one leg: found in odds_cache, fetched from upstream,
\* or not to be had; and its bets in the order of the scan.
LegData ==
    {[market |-> "unavailable", bets |-> <<>>]} \cup
    [market : {"cached", "fetched"},
     bets : UNION {[1..n -> BetScans] : n \in 0..MaxBets}]

\* The scan of one leg, from bet `from` on: the first option of the wanted
\* value of each bet is taken, float(option.get("odd")); a value that is
\* truthy ends the scan, the value 0.0 does not.
RECURSIVE LegScan(_, _)
LegScan(bets, from) ==
    IF from > Len(bets) THEN <<"none", 0>>
    ELSE IF bets[from][1] = "bad" THEN <<"raise", 0>>
    ELSE IF bets[from][1] = "num" /\ bets[from][2] # 0 THEN bets[from]
    ELSE LegScan(bets, from + 1)

\* get_advice_odd(fixture, advice) for an advice with "combo double
\* chance" in it.  `parse` is what the advice comes to: the pattern does
\* not match, the double-chance part names no pair the code knows, or
\* both legs are understood.  The double-chance leg is scanned first, and
\* an exception of float() leaves the function at once.
get_advice_odd_combo(a) ==
    IF a.parse # "ok" THEN <<"None", 0>>
    ELSE LET odds_dc_val == LegScan(a.dc.bets, 1)
             odds_gu_val == LegScan(a.gu.bets, 1)
         IN IF odds_dc_val[1] = "raise" \/ odds_gu_val[1] = "raise"
            THEN <<"raise", 0>>
            ELSE IF odds_dc_val[1] = "num" /\ odds_gu_val[1] = "num"
            THEN <<"price", odds_dc_val[2] * odds_gu_val[2]>>
            ELSE <<"None", 0>>

ComboInputs == [parse : {"no_match", "no_pair", "ok"}, dc : LegData, gu : LegData]

\* get_advice_odd is called with a combo advice, on any market data.
PriceCombo ==
    /\ priced = <<>>
    /\ \E a \in ComboInputs :
          priced' = <<[input |-> a, result |-> get_advice_odd_combo(a)]>>
    /\ UNCHANGED <<single, batch, advised, checked, task, dates, pool>>
    /\ UNCHANGED notProc

(***************************************************************************)
(* Advice texts (src/app.py 253-385, 389-457)                              *)
(*                                                                         *)
(* A text is the sequence of its words; the empty sequence is the empty   *)
(* string.  A team name, an advice and the label of a selection are       *)
(* texts.  The word " " stands for white space at the ends of a name.     *)
(***************************************************************************)

\* str.lower() of one word.
lower_word(w) ==
    CASE w = "Winner" -> "winner"
      [] w = "Double" -> "double"
      [] w = "Chance" -> "chance"
      [] w = "Combo" -> "combo"
      [] w = "Draw" -> "draw"
      [] w = "Goals" -> "goals"
      [] w = "Home" -> "home"
      [] w = "Away" -> "away"
      [] w = "Other" -> "other"
      [] w = "Home/Draw" -> "home/draw"
      [] w = "Under" -> "under"
      [] w = "Over" -> "over"
      [] OTHER -> w

\* str.lower() of a text.
lower(text) == [i \in 1..Len(text) |-> lower_word(text[i])]

\* str.strip() of a text: the white space at its two ends goes.
RECURSIVE strip(_)
strip(text) ==
    IF text = <<>> THEN text
    ELSE IF Head(text) = " " THEN strip(Tail(text))
    ELSE IF text[Len(text)] = " " THEN strip(SubSeq(text, 1, Len(text) - 1))
    ELSE text

\* `needle in hay` of Python: hay has needle as a contiguous part; the
\* empty text is in every text.
In(needle, hay) ==
    \E i \in 0..(Len(hay) - Len(needle)) :
        SubSeq(hay, i + 1, i + Len(needle)) = needle

\* The words the pattern [+-]\d+(\.\d+)? matches whole.
SignedNumbers == {"-2.5", "+2.5", "-3"}

\* goal_value.startswith('-') and goal_value.startswith('+').
startswith_minus(w) == w \in {"-2.5", "-3"}
startswith_plus(w) == w \in {"+2.5"}

\* goal_value.lstrip('-') and goal_value.lstrip('+'): the number without
\* its sign.
lstrip_sign(w) ==
    CASE w \in {"-2.5", "+2.5"} -> "2.5"
      [] w = "-3" -> "3"
      [] OTHER -> w

\* float(threshold), counted in half goals.
float_halves(w) ==
    CASE w = "2.5" -> 5
      [] w = "3" -> 6
      [] OTHER -> 0

\* re.search(r'combo double chance\s*:\s*(.+?)\s+and\s+([+-]\d+(\.\d+)?)
\* \s*goals', advice_lower): the places <<i, j>> where "combo double
\* chance :" starts at word i and "and <signed number> goals" at word j,
\* with at least one word between the two.
ComboMatches(t) ==
    {m \in (1..Len(t)) \X (1..Len(t)) :
        /\ m[1] + 3 <= Len(t)
        /\ SubSeq(t, m[1], m[1] + 3) = <<"combo", "double", "chance", ":">>
        /\ m[2] >= m[1] + 5
        /\ m[2] + 2 <= Len(t)
        /\ t[m[2]] = "and"
        /\ t[m[2] + 1] \in SignedNumbers
        /\ t[m[2] + 2] = "goals"}

\* The match re.search returns: the leftmost start, and from it the
\* shortest first group (.+? is lazy).  dc_part is group 1 and goal_value
\* group 2; <<>> stands for no match.
ComboMatch(t) ==
    IF ComboMatches(t) = {} THEN <<>>
    ELSE LET i == CHOOSE i \in {m[1] : m \in ComboMatches(t)} :
                      \A m \in ComboMatches(t) : i <= m[1]
             j == CHOOSE j \in {m[2] : m \in {n \in ComboMatches(t) : n[1] = i}} :
                      \A m \in {n \in ComboMatches(t) : n[1] = i} : j <= m[2]
         IN <<[dc_part |-> strip(SubSeq(t, i + 4, j - 1)),
               goal_value |-> t[j + 1]]>>

\* The double-chance selection a text names, as both the combo clause
\* (272-279) and the simple advice (347-354) work it out from the two
\* lower-cased team names; <<>> is none.  In the combo clause none is
\* `return None`, in the simple advice desired_option stays "".
dc_option_without_draw(home, away, part) ==
    IF In(home, part) THEN <<"home/draw">>
    ELSE IF In(away, part) THEN <<"draw/away">>
    ELSE <<>>

dc_option(home, away, part) ==
    IF In(home, part) /\ In(<<"draw">>, part) THEN <<"home/draw">>
    ELSE IF In(away, part) /\ In(<<"draw">>, part) THEN <<"draw/away">>
    ELSE IF In(home, part) /\ In(away, part) THEN <<"home/away">>
    ELSE <<>>

\* The selection a "winner" advice names (356-361).
winner_option(home, away, text) ==
    IF In(home, text) THEN <<"home">>
    ELSE IF In(away, text) THEN <<"away">>
    ELSE <<>>

\* Which branch of the simple bets an advice takes (347, 356): "double
\* chance" is looked for first, then "winner"; 0 is desired_bet_id None.
simple_bet_defaults_to_winner(text) ==
    IF In(<<"double", "chance">>, text) THEN DOUBLE_CHANCE_BET_ID
    ELSE MATCH_WINNER_BET_ID

simple_bet(text) ==
    IF In(<<"double", "chance">>, text) THEN DOUBLE_CHANCE_BET_ID
    ELSE IF In(<<"winner">>, text) THEN MATCH_WINNER_BET_ID
    ELSE 0

\* The odd of an option: a number, or something float() raises
\* ValueError or TypeError on (a malformed string, or no "odd" at all).
Odds == {<<"num", 2>>, <<"num", 3>>, <<"bad", 0>>}

\* The labels of the options in the market data; <<>> is an option with
\* no "value", which option.get("value", "") reads as "".
Labels == {<<"Home">>, <<"Home/Draw">>, <<"Under", "2.5">>, <<>>}

Options == [value : Labels, odd : Odds]

\* The market data of one lookup: in odds_cache, fetched from upstream or
\* not to be had; and the options of its bet of the wanted id.
MarketData(options) ==
    {[market |-> "unavailable", values |-> <<>>]} \cup
    [market : {"cached", "fetched"},
     values : UNION {[1..n -> options] : n \in 0..MaxOptions}]

\* The options of the models' first lookup (a match-winner or a
\* double-chance market) and of its second (a goals market).
FirstOptions ==
    {o \in Options : o.value # <<"Under", "2.5">> /\ o.odd # <<"num", 3>>}
SecondOptions ==
    {o \in Options : o.value \in {<<"Under", "2.5">>, <<>>} /\ o.odd # <<"num", 2>>}

\* The api_get calls of one lookup (294-299, 319-324, 365-370): none on a
\* cache hit.
lookup_calls(data) == IF data.market = "cached" THEN 0 ELSE 1

\* The first option of a bet the scan takes: the first whose stripped,
\* lower-cased label is the wanted one (307, 380) or, for the goals leg,
\* has the wanted one in it (332); 0 if there is none.
first_option(values, wanted, exact) ==
    LET hits == {k \in 1..Len(values) :
                    IF exact THEN lower(strip(values[k].value)) = wanted
                    ELSE In(wanted, lower(strip(values[k].value)))}
    IN IF hits = {} THEN 0
       ELSE CHOOSE k \in hits : \A h \in hits : k <= h

\* The scan of a leg of a combo (301-312, 326-337): float() of the odd of
\* the first option taken, with nothing to catch what it raises.
combo_scan(values, wanted, exact) ==
    LET k == first_option(values, wanted, exact)
    IN IF k = 0 THEN <<"none", 0>>
       ELSE IF values[k].odd[1] = "bad" THEN <<"raise", 0>>
       ELSE values[k].odd

\* The scan of a simple bet (374-385): float() of the odd of the first
\* option taken is returned, and None if float() raises.
simple_scan(values, wanted) ==
    LET k == first_option(values, wanted, TRUE)
    IN IF k = 0 THEN <<"None", 0>>
       ELSE IF values[k].odd[1] = "bad" THEN <<"None", 0>>
       ELSE <<"price", values[k].odd[2]>>

\* What a call comes to: the path it took, the bet and the selection it
\* looked for, the api_get calls it made and what it returned.
Resolved(path, bet, option, fetches, returned) ==
    [path |-> path, bet |-> bet, option |-> option, calls |-> fetches,
     result |-> returned]

\* The combo path of get_advice_odd (264-341) on the lower-cased advice.
get_advice_odd_combo_path(x, home, away, advice_lower) ==
    LET m == ComboMatch(advice_lower)
    IN IF m = <<>> THEN Resolved("combo", 0, <<>>, 0, <<"None", 0>>)
       ELSE
       LET dc_option_search == dc_option(home, away, m[1].dc_part)
           gu_option_search ==
               IF startswith_minus(m[1].goal_value)
               THEN <<"under", lstrip_sign(m[1].goal_value)>>
               ELSE IF startswith_plus(m[1].goal_value)
               THEN <<"over", lstrip_sign(m[1].goal_value)>>
               ELSE <<>>
           odds_dc_val == combo_scan(x.first.values, dc_option_search, TRUE)
           odds_gu_val == combo_scan(x.second.values, gu_option_search, FALSE)
       IN IF dc_option_search = <<>> \/ gu_option_search = <<>>
          THEN Resolved("combo", 0, <<>>, 0, <<"None", 0>>)
          ELSE IF odds_dc_val[1] = "raise"
          THEN Resolved("combo", DOUBLE_CHANCE_BET_ID, dc_option_search,
                        lookup_calls(x.first), <<"raise", 0>>)
          ELSE IF odds_gu_val[1] = "raise"
          THEN Resolved("combo", DOUBLE_CHANCE_BET_ID, dc_option_search,
                        lookup_calls(x.first) + lookup_calls(x.second),
                        <<"raise", 0>>)
          ELSE Resolved("combo", DOUBLE_CHANCE_BET_ID, dc_option_search,
                        lookup_calls(x.first) + lookup_calls(x.second),
                        IF /\ odds_dc_val[1] = "num" /\ odds_dc_val[2] # 0
                           /\ odds_gu_val[1] = "num" /\ odds_gu_val[2] # 0
                        THEN <<"price", odds_dc_val[2] * odds_gu_val[2]>>
                        ELSE <<"None", 0>>)

\* The simple bets of get_advice_odd (343-385) on the lower-cased advice.
get_advice_odd_simple_path(x, home, away, advice_lower) ==
    LET desired_bet_id == simple_bet(advice_lower)
        desired_option ==
            IF desired_bet_id = DOUBLE_CHANCE_BET_ID
            THEN dc_option(home, away, advice_lower)
            ELSE IF desired_bet_id = MATCH_WINNER_BET_ID
            THEN winner_option(home, away, advice_lower)
            ELSE <<>>
    IN IF desired_bet_id = 0 \/ desired_option = <<>>
       THEN Resolved("simple", desired_bet_id, desired_option, 0, <<"None", 0>>)
       ELSE Resolved("simple", desired_bet_id, desired_option,
                     lookup_calls(x.first),
                     simple_scan(x.first.values, desired_option))

\* get_advice_odd(fixture, advice) on the team names of the fixture, the
\* advice and the market data of its lookups, the first and the second.
get_advice_odd_text(x) ==
    IF x.kind # "str" \/ x.advice = <<>>
    THEN Resolved("refused", 0, <<>>, 0, <<"None", 0>>)
    ELSE LET home_team_name == strip(x.home)
             away_team_name == strip(x.away)
             advice_lower == lower(x.advice)
         IN IF In(<<"combo", "double", "chance">>, advice_lower)
            THEN get_advice_odd_combo_path(x, lower(home_team_name),
                                           lower(away_team_name), advice_lower)
            ELSE get_advice_odd_simple_path(x, lower(home_team_name),
                                            lower(away_team_name), advice_lower)

\* The names a fixture has for its teams: teams.home.name and
\* teams.away.name, "" where the fixture has none.
HomeNames == {<<"Home">>, <<>>}
AwayNames == {<<" ", "Away", " ">>, <<>>}

\* The advice texts: a market, a selection and a goals clause, each of
\* which may be missing; and the sentinel "-".
AdviceMarkets ==
    {<<>>, <<"Winner", ":">>, <<"Double", "chance", ":">>,
     <<"Combo", "Double", "chance", ":">>, <<"Combo", "Winner", ":">>,
     <<"Combo", "Double", "chance">>}

AdviceSelections ==
    {<<>>, <<"Home">>, <<"Away">>, <<"Other">>, <<"Home", "or", "draw">>,
     <<"draw", "or", "Away">>, <<"Home", "or", "Away">>,
     <<"Other", "or", "draw">>}

AdviceGoals ==
    {<<>>, <<"and", "-2.5", "goals">>, <<"and", "+2.5", "goals">>,
     <<"and", "-3", "goals">>, <<"and", "2.5", "goals">>}

AdviceTexts ==
    {m \o s \o g : m \in AdviceMarkets, s \in AdviceSelections, g \in AdviceGoals}
    \cup {<<"-">>}

\* The advice a caller passes: a string, or None.
Advices ==
    [kind : {"str"}, advice : AdviceTexts] \cup {[kind |-> "None", advice |-> <<>>]}

\* get_advice_odd is called on a fixture, an advice and market data.
PriceAdvice ==
    /\ advised = <<>>
    /\ \E a \in Advices, home \in HomeNames, away \in AwayNames,
          first \in MarketData(FirstOptions),
          second \in MarketData(SecondOptions) :
          LET x == [kind |-> a.kind, advice |-> a.advice, home |-> home,
                    away |-> away, first |-> first, second |-> second]
          IN advised' = <<[input |-> x, out |-> get_advice_odd_text(x)]>>
    /\ UNCHANGED <<single, batch, priced, checked, task, dates, pool>>
    /\ UNCHANGED notProc

(***************************************************************************)
(* check_prediction_result (src/app.py 389-457)                            *)
(*                                                                         *)
(* A goal count is <<n>>, or <<>> where the record has none (None).        *)
(***************************************************************************)

\* actual_result (405-411).
actual_result_draw_as_home(home_goals, away_goals) ==
    IF home_goals >= away_goals THEN "home" ELSE "away"

actual_result(home_goals, away_goals) ==
    IF home_goals > away_goals THEN "home"
    ELSE IF away_goals > home_goals THEN "away"
    ELSE "draw"

\* The results a double-chance text covers (421-426 and again 433-438):
\* the same three tests as in get_advice_odd, in the same order; {} where
\* none of them holds.
dc_results(home, away, text) ==
    IF In(home, text) /\ In(<<"draw">>, text) THEN {"home", "draw"}
    ELSE IF In(away, text) /\ In(<<"draw">>, text) THEN {"away", "draw"}
    ELSE IF In(home, text) /\ In(away, text) THEN {"home", "away"}
    ELSE {}

\* re.search(r'([+-]\d+(\.\d+)?)\s*goals', advice_lower): the first signed
\* number followed by "goals"; <<>> stands for no match.
GoalsMatch(t) ==
    LET at == {k \in 1..(Len(t) - 1) : t[k] \in SignedNumbers /\ t[k + 1] = "goals"}
    IN IF at = {} THEN <<>>
       ELSE <<t[CHOOSE k \in at : \A h \in at : k <= h]>>

\* goals_correct (441-453): total goals against the threshold, strictly;
\* both are counted in half goals.
goals_correct(t, total_goals) ==
    LET goals_match == GoalsMatch(t)
    IN IF goals_match = <<>> THEN FALSE
       ELSE IF startswith_minus(goals_match[1])
       THEN 2 * total_goals < float_halves(lstrip_sign(goals_match[1]))
       ELSE IF startswith_plus(goals_match[1])
       THEN 2 * total_goals > float_halves(lstrip_sign(goals_match[1]))
       ELSE FALSE

\* A Python bool, as the function returns it.
Bool(b) == IF b THEN "True" ELSE "False"

\* The tests on a record with a full score (401-457): "winner" first, then
\* "double chance", then "combo"; a test whose text names no team falls
\* through to the next.
check_scored(home, away, advice_lower, home_goals, away_goals) ==
    LET actual == actual_result(home_goals, away_goals)
        winner ==
            IF ~In(<<"winner">>, advice_lower) THEN "next"
            ELSE IF In(home, advice_lower) THEN Bool(actual = "home")
            ELSE IF In(away, advice_lower) THEN Bool(actual = "away")
            ELSE "next"
        double_chance ==
            IF ~In(<<"double", "chance">>, advice_lower) THEN "next"
            ELSE IF dc_results(home, away, advice_lower) = {} THEN "next"
            ELSE Bool(actual \in dc_results(home, away, advice_lower))
        combo ==
            IF ~In(<<"combo">>, advice_lower) THEN "None"
            ELSE Bool(/\ actual \in dc_results(home, away, advice_lower)
                      /\ goals_correct(advice_lower, home_goals + away_goals))
    IN IF winner # "next" THEN winner
       ELSE IF double_chance # "next" THEN double_chance
       ELSE combo

\* check_prediction_result(fixture, advice): no advice and a missing goal
\* count are answered None before the advice is read (391-399).
check_prediction_result_missing_as_zero(x) ==
    IF x.kind # "str" \/ x.advice = <<>> THEN "None"
    ELSE check_scored(lower(strip(x.home)), lower(strip(x.away)), lower(x.advice),
                      IF x.home_goals = <<>> THEN 0 ELSE x.home_goals[1],
                      IF x.away_goals = <<>> THEN 0 ELSE x.away_goals[1])

check_prediction_result(x) ==
    IF x.kind # "str" \/ x.advice = <<>> THEN "None"
    ELSE IF x.home_goals = <<>> \/ x.away_goals = <<>> THEN "None"
    ELSE check_scored(lower(strip(x.home)), lower(strip(x.away)),
                      lower(x.advice), x.home_goals[1], x.away_goals[1])

\* The goal counts a record may have.
GoalCounts == {<<>>} \cup {<<n>> : n \in 0..MaxGoals}

\* check_prediction_result is called on a record and an advice.
CheckPrediction ==
    /\ checked = <<>>
    /\ \E a \in Advices, home \in HomeNames, away \in AwayNames,
          home_goals \in GoalCounts, away_goals \in GoalCounts :
          LET x == [kind |-> a.kind, advice |-> a.advice, home |-> home,
                    away |-> away, home_goals |-> home_goals,
                    away_goals |-> away_goals]
          IN checked' = <<[input |-> x, out |-> check_prediction_result(x)]>>
    /\ UNCHANGED <<single, batch, priced, advised, task, dates, pool>>
    /\ UNCHANGED notProc

(***************************************************************************)
(* process_single_fixture as a worker thread runs it (src/app.py 163-213), *)
(* one upstream fetch after the other, each an api_get call whose attempts *)
(* go through the governor, beside other threads that use the governor.    *)
(***************************************************************************)

\* The api_get calls of one record: for the prediction (187), for the odds
\* of the one market of a simple bet or the double-chance leg of a combo
\* (370, 297), and for the goals leg of a combo (322).
FetchStages == {"prediction", "odds_first", "odds_second"}

NoTask == [stage |-> "idle", path |-> "none", fetches |-> 0]

\* The other threads that call wait_for_rate_limit.
Rivals == {t \in Threads : t > NumCallers /\ t <= NumCallers + NumRivals}

\* Where a call goes next: to one of its fetches, or to its end; and the
\* path of get_advice_odd it is on.
Move(stage, path) == [stage |-> stage, path |-> path]

\* After the goals leg of a combo (326-341) the call returns.
AfterSecond == {Move("returned", "combo")}

\* After the first odds lookup: a simple bet returns (374-385); a combo
\* returns if its scan raises or its goals market is in the cache, and
\* else fetches the goals market (314-324).
AfterFirstFetchesAgain(path) ==
    IF path = "simple"
    THEN {Move("returned", "simple")}
    ELSE {Move("returned", "combo"), Move("odds_second", "combo"),
          Move("odds_first", "combo")}

AfterFirst(path) ==
    IF path = "simple"
    THEN {Move("returned", "simple")}
    ELSE {Move("returned", "combo"), Move("odds_second", "combo")}

\* After the prediction is there (193-206): no usable advice, an exception
\* or an advice of no known market end the call; else get_advice_odd looks
\* up its first market, in the cache or upstream.
AfterPrediction ==
    {Move("returned", "none")} \cup
    UNION {{Move("odds_first", p)} \cup AfterFirst(p) : p \in {"simple", "combo"}}

\* From the start of the call (170-191): the fixture is no dict and the
\* handler raises, or it has no id or is finished, or the prediction is
\* fetched, or it is in the cache.
Begin ==
    {Move("raised", "none"), Move("returned", "none"), Move("prediction", "none")}
    \cup AfterPrediction

\* Where a call can go when the api_get call it waited for has returned.
Moves(stage, path, returned) ==
    CASE stage = "prediction" ->
             IF returned = "response" THEN AfterPrediction
             ELSE {Move("returned", "none")}
      [] stage = "odds_first" -> AfterFirst(path)
      [] stage = "odds_second" -> AfterSecond
      [] OTHER -> Begin

\* The call makes a move: it enters api_get for a fetch, or ends.
Take(t, m, fetches) ==
    /\ IF m.stage \in FetchStages
       THEN /\ api_get_enter(t)
            /\ task' = [task EXCEPT ![t] = [stage |-> m.stage, path |-> m.path,
                                            fetches |-> fetches + 1]]
       ELSE /\ task' = [task EXCEPT ![t] = [stage |-> m.stage, path |-> m.path,
                                            fetches |-> fetches]]
            /\ UNCHANGED govVars
    /\ UNCHANGED <<cacheVars, storeVars, single, batch, priced, advised, checked, dates, pool>>

\* A worker thread is given a record: process_single_fixture(fixture).
TaskCall(t) ==
    /\ task[t].stage = "idle"
    /\ pc[t] = "idle"
    /\ \E m \in Begin : Take(t, m, 0)

\* The api_get call of the thread has returned, and the call goes on.
TaskResume(t) ==
    /\ task[t].stage \in FetchStages
    /\ pc[t] = "done"
    /\ \E m \in Moves(task[t].stage, task[t].path, result[t]) :
          Take(t, m, task[t].fetches)

(***************************************************************************)
(* The populating thread's loop over the dates: initial_cache_population   *)
(* (src/app.py 556-579), then update_fixtures_cache (511-539), the batch   *)
(* of each date a filter_fixtures_for_date call on the records of the date.*)
(***************************************************************************)

\* No date is published yet.
NoDay == LastDay + 1

NoDates == [phase |-> "initial", day |-> FirstDay, last |-> NoDay, stray |-> {}]

\* The futures of a batch other than the one whose result() raised: they
\* were submitted to the one executor of the module (46, 230), which runs
\* them to their end though nothing waits for them any more.
LeftRunning(pending, raised) == pending \ {raised}

\* On from a date: to the next of the window; after the last one from
\* initial_cache_population to the first cycle of update_fixtures_cache,
\* and from a cycle, after time.sleep(FIXTURES_CACHE_DURATION), to the next.
AfterDate(s) ==
    IF s.day < LastDay THEN [s EXCEPT !.day = @ + 1]
    ELSE [s EXCEPT !.phase = "cycle", !.day = FirstDay]

\* filter_fixtures_for_date has returned: the entry of the date is written
\* under cache_lock, and after time.sleep(2) the loop goes on.
DatePublished ==
    /\ batch.stage = "returned"
    /\ dates' = AfterDate([dates EXCEPT !.last = dates.day])
    /\ batch' = NoBatch
    /\ UNCHANGED <<single, priced, advised, checked, task, pool>>
    /\ UNCHANGED notProc

\* future.result() has raised out of filter_fixtures_for_date.  In
\* initial_cache_population the except clause is inside the loop over the
\* dates and the loop goes on with the next date; in update_fixtures_cache
\* it is around the cycle, and after time.sleep(300) `while True` starts
\* the next cycle.  The other futures of the batch are left running.
DateFailed ==
    /\ batch.stage = "raised"
    /\ \E i \in batch.pending :
          /\ process_single_fixture_run(batch.records[i]).result = "raised"
          /\ LET s == [dates EXCEPT !.stray =
                          IF LeftRunning(batch.pending, i) = {} THEN @
                          ELSE @ \cup {dates.day}]
             IN dates' = IF dates.phase = "initial" THEN AfterDate(s)
                         ELSE [s EXCEPT !.day = FirstDay]
    /\ batch' = NoBatch
    /\ UNCHANGED <<single, priced, advised, checked, task, pool>>
    /\ UNCHANGED notProc

\* The last future of an abandoned batch has run to its end.
StrayCompletes(d) ==
    /\ d \in dates.stray
    /\ dates' = [dates EXCEPT !.stray = @ \ {d}]
    /\ UNCHANGED <<single, batch, priced, advised, checked, task, pool>>
    /\ UNCHANGED notProc

(***************************************************************************)
(* The executor (src/app.py 46) and the threads that submit the processing *)
(* of records to it: filter_fixtures_for_date (230), called by the         *)
(* populating thread and by requests, and api_fixtures_finished (963).     *)
(* A ThreadPoolExecutor keeps the submitted tasks in a queue and has at    *)
(* most max_workers threads, each executing one task at a time.            *)
(***************************************************************************)

\* The threads that submit: the populating thread and the request threads.
Clients == 1..NumClients
Populator == 1

\* What each submits: process_single_fixture from filter_fixtures_for_date,
\* and a request thread also process_finished_fixture.
TaskFunctions(c) ==
    IF c = Populator THEN {"process_single_fixture"}
    ELSE {"process_single_fixture", "process_finished_fixture"}

\* The executor a thread submits to: the one of the module, made when the
\* module is loaded.
executor_per_call(c) == c
executor(c) == 0

Executors == {executor(c) : c \in Clients}

\* In the queue, a task nobody waits for any more.
Stray == 0

NoPool == [work_queue |-> [x \in Executors |-> <<>>],
           running |-> [c \in Clients |-> 0],
           stray |-> [x \in Executors |-> 0],
           futures |-> [c \in Clients |-> 0],
           fn |-> [c \in Clients |-> "none"]]

RECURSIVE Total(_, _)
Total(f, S) ==
    IF S = {} THEN 0
    ELSE LET c == CHOOSE c \in S : TRUE IN f[c] + Total(f, S \ {c})

\* The worker threads of an executor that are executing a task.
Busy(x) ==
    Total(pool.running, {c \in Clients : executor(c) = x}) + pool.stray[x]

\* futures = {executor.submit(fn, fixture): fixture for fixture in ...}:
\* a thread that waits for no futures submits a task for each of the n
\* records of its list.
Submit(c, fn, n) ==
    /\ pool.futures[c] = 0
    /\ fn \in TaskFunctions(c)
    /\ Len(pool.work_queue[executor(c)]) + n <= MaxQueued
    /\ pool' = [pool EXCEPT
          !.work_queue[executor(c)] = @ \o [i \in 1..n |-> c],
          !.futures[c] = n,
          !.fn[c] = fn]
    /\ UNCHANGED <<single, batch, priced, advised, checked, task, dates>>
    /\ UNCHANGED notProc

\* A worker thread of the executor takes the next task of the queue; the
\* executor has a thread for it while fewer than max_workers are busy.
WorkerTakes(x) ==
    /\ pool.work_queue[x] # <<>>
    /\ Busy(x) < max_workers
    /\ LET c == Head(pool.work_queue[x]) IN
       pool' = [pool EXCEPT
          !.work_queue[x] = Tail(@),
          !.running = IF c = Stray THEN @ ELSE [@ EXCEPT ![c] = @ + 1],
          !.stray[x] = IF c = Stray THEN @ + 1 ELSE @]
    /\ UNCHANGED <<single, batch, priced, advised, checked, task, dates>>
    /\ UNCHANGED notProc

\* A task returns, and as_completed yields its future to the thread that
\* waits for it.
TaskReturns(c) ==
    /\ pool.running[c] > 0
    /\ pool' = [pool EXCEPT
          !.running[c] = @ - 1,
          !.futures[c] = @ - 1,
          !.fn[c] = IF pool.futures[c] = 1 THEN "none" ELSE @]
    /\ UNCHANGED <<single, batch, priced, advised, checked, task, dates>>
    /\ UNCHANGED notProc

\* A task raises, and future.result() raises in the thread that waits for
\* it: the thread leaves its loop (the request fails, the populating
\* thread goes on), and its other tasks stay with the executor, queued or
\* executing, with nobody to wait for them.
TaskRaises(c) ==
    /\ pool.running[c] > 0
    /\ pool' = [pool EXCEPT
          !.work_queue[executor(c)] =
              [i \in DOMAIN @ |-> IF @[i] = c THEN Stray ELSE @[i]],
          !.stray[executor(c)] = @ + pool.running[c] - 1,
          !.running[c] = 0,
          !.futures[c] = 0,
          !.fn[c] = "none"]
    /\ UNCHANGED <<single, batch, priced, advised, checked, task, dates>>
    /\ UNCHANGED notProc

\* A task nobody waits for ends.
StrayEnds(x) ==
    /\ pool.stray[x] > 0
    /\ pool' = [pool EXCEPT !.stray[x] = @ - 1]
    /\ UNCHANGED <<single, batch, priced, advised, checked, task, dates>>
    /\ UNCHANGED notProc

InitProc ==
    /\ single = <<>>
    /\ batch = NoBatch
    /\ priced = <<>>
    /\ advised = <<>>
    /\ checked = <<>>
    /\ task = [t \in Callers |-> NoTask]
    /\ dates = NoDates
    /\ pool = NoPool

Init == InitGov /\ InitCache /\ InitStore /\ InitProc


NextRate ==
    \/ \E t \in Threads : Arrive(t)
    \/ \E t \in Threads : GovEnter(t)
    \/ \E t \in Threads : GovWake(t)
    \/ \E t \in Threads : Leave(t)
    \/ Tick

\* Threads calling wait_for_rate_limit() over and over, in every interleaving.
SpecRate == Init /\ [][NextRate]_vars

NextApi ==
    \/ \E t \in Callers : ApiCall(t)
    \/ \E t \in Callers : GovEnter(t)
    \/ \E t \in Callers : GovWake(t)
    \/ \E t \in Callers : Request(t)
    \/ \E t \in Callers : Continue(t)
    \/ Tick

\* Callers of api_get, each attempt going through the governor.
SpecApi == Init /\ [][NextApi]_vars

NextCache ==
    \/ \E s \in Sites, k \in Keys : Lookup(s, k)
    \/ HourTick

\* One cache dictionary, read and written from the places that use it, as
\* the hours pass.  The three dictionaries share nothing, and
\* get_cached_data and set_cached_data touch only the one they are given.
SpecCache == Init /\ [][NextCache]_vars
NextStore ==
    \/ Main
    \/ Import
    \/ \E b \in Builders : FilterFetch(b)
    \/ \E b \in Builders, f \in Fixtures : FilterCollect(b, f)
    \/ SchedAcquire
    \/ SchedPublish
    \/ SchedWake
    \/ \E r \in Readers, d \in RequestDates : ApiFixturesAcquire(r, d)
    \/ \E r \in Readers : ApiFixturesLookup(r)
    \/ \E r \in Readers : ApiFixturesOnDemand(r)
    \/ \E r \in Readers : ApiFixturesServe(r)
    \/ \E r \in Readers, d \in RequestDates : ApiFixturesFinished(r, d)
    \/ StoreHour

\* The snapshot store, the thread that populates it, and the request
\* threads of /api/fixtures and /api/fixtures/finished, while no match
\* ends: every fixture upstream reports is still to be played.
SpecStore == Init /\ [][NextStore]_vars

NextFinished ==
    \/ Import
    \/ \E b \in Readers : FilterFetch(b)
    \/ \E b \in Readers, f \in Fixtures : FilterCollect(b, f)
    \/ \E r \in Readers, d \in RequestDates : ApiFixturesAcquire(r, d)
    \/ \E r \in Readers : ApiFixturesLookup(r)
    \/ \E r \in Readers : ApiFixturesOnDemand(r)
    \/ \E r \in Readers : ApiFixturesServe(r)
    \/ \E r \in Readers, d \in RequestDates : ApiFixturesFinished(r, d)
    \/ \E r \in Readers, f \in Fixtures, g \in 1..MaxFetches : FinishedCollect(r, <<g, f>>)
    \/ \E r \in Readers : FinishedReturn(r)
    \/ \E f \in Fixtures : MatchEnds(f)
    \/ StoreHour

\* The request threads in a module a server has imported, as matches end.
SpecFinished == Init /\ [][NextFinished]_vars

NextSched ==
    \/ Main
    \/ FilterFetch(Scheduler)
    \/ \E f \in Fixtures : FilterCollect(Scheduler, f)
    \/ SchedAcquire
    \/ SchedPublish
    \/ SchedWake
    \/ SchedError
    \/ SchedRecover
    \/ StoreHour

\* The populating thread of the module run as the program, its filtering
\* liable to raise.
SpecSched == Init /\ [][NextSched]_vars

\* The same, where time passes, sleeps end, and the thread is scheduled:
\* each of its steps is taken in the end, once it can be taken (api_get
\* ends after at most max_retries attempts; cache_lock is held by others
\* for a lookup only).
SpecSchedLive ==
    /\ SpecSched
    /\ WF_vars(StoreHour)
    /\ WF_vars(FilterFetch(Scheduler))
    /\ WF_vars(\E f \in Fixtures : FilterCollect(Scheduler, f))
    /\ WF_vars(SchedAcquire)
    /\ WF_vars(SchedPublish)
    /\ WF_vars(SchedWake)
    /\ WF_vars(SchedRecover)

NextServe ==
    \/ Main
    \/ Import
    \/ \E b \in Builders : FilterFetch(b)
    \/ \E b \in Builders, f \in Fixtures : FilterCollect(b, f)
    \/ SchedAcquire
    \/ SchedPublish
    \/ SchedWake
    \/ \E r \in Readers, d \in RequestDates : ApiFixturesAcquire(r, d)
    \/ \E r \in Readers : ApiFixturesLookup(r)
    \/ \E r \in Readers : ApiFixturesOnDemand(r)
    \/ \E r \in Readers : ApiFixturesServe(r)
    \/ \E r \in Readers, d \in RequestDates : ApiFixturesFinished(r, d)
    \/ \E r \in Readers, f \in Fixtures, g \in 1..MaxFetches : FinishedCollect(r, <<g, f>>)
    \/ \E r \in Readers : FinishedReturn(r)
    \/ \E f \in Fixtures : MatchEnds(f)
    \/ StoreHour

\* The store, the thread that populates it and the request threads of both
\* endpoints, as matches end.
SpecServe == Init /\ [][NextServe]_vars

NextRecord == ProcessSingle

\* Calls of process_single_fixture.
SpecRecord == Init /\ [][NextRecord]_vars

NextBatch ==
    \/ FilterStart
    \/ \E i \in 1..MaxBatch : FutureCompletes(i)

\* Calls of filter_fixtures_for_date.
SpecBatch == Init /\ [][NextBatch]_vars

NextCombo == PriceCombo

\* Calls of get_advice_odd with a combo advice.
SpecCombo == Init /\ [][NextCombo]_vars

NextAdvice == PriceAdvice

\* Calls of get_advice_odd on advice texts.
SpecAdvice == Init /\ [][NextAdvice]_vars

NextOutcome == CheckPrediction

\* Calls of check_prediction_result.
SpecOutcome == Init /\ [][NextOutcome]_vars

NextTask ==
    \/ \E t \in Callers : TaskCall(t)
    \/ \E t \in Callers : TaskResume(t)
    \/ \E t \in Callers \cup Rivals : GovEnter(t)
    \/ \E t \in Callers \cup Rivals : GovWake(t)
    \/ \E t \in Callers : Request(t)
    \/ \E t \in Callers : Continue(t)
    \/ \E t \in Rivals : Arrive(t)
    \/ \E t \in Rivals : Leave(t)
    \/ Tick

\* Worker threads in process_single_fixture, every attempt of every fetch
\* going through the governor, which other threads use too.
SpecTask == Init /\ [][NextTask]_vars

\* The same under fair scheduling: the clock goes on, a thread that can
\* take its next step takes it, a thread asleep in the governor wakes and
\* gives up the lock, and a thread that finds the lock free again and
\* again gets it.
SpecTaskLive ==
    /\ SpecTask
    /\ WF_vars(Tick)
    /\ \A t \in Callers :
          /\ WF_vars(TaskResume(t))
          /\ SF_vars(GovEnter(t))
          /\ WF_vars(Request(t))
          /\ WF_vars(Continue(t))
    /\ \A t \in Callers \cup Rivals : WF_vars(GovWake(t))

NextDates ==
    \/ FilterStart
    \/ \E i \in 1..MaxBatch : FutureCompletes(i)
    \/ DatePublished
    \/ DateFailed
    \/ \E d \in DayOffsets : StrayCompletes(d)

\* The populating thread going from date to date, a batch of records each.
SpecDates == Init /\ [][NextDates]_vars

NextPool ==
    \/ \E c \in Clients, n \in 1..MaxBatch :
          \E fn \in TaskFunctions(c) : Submit(c, fn, n)
    \/ \E x \in Executors : WorkerTakes(x)
    \/ \E c \in Clients : TaskReturns(c)
    \/ \E c \in Clients : TaskRaises(c)
    \/ \E x \in Executors : StrayEnds(x)

\* The populating thread and the request threads submitting their records
\* to the executor, in every interleaving.
SpecPool == Init /\ [][NextPool]_vars


(***************************************************************************)
(* Properties of the governor (under SpecRate) and of api_get (SpecApi).    *)
(***************************************************************************)

\* C1 -- Rate bound: whatever the interleaving of the threads, no 1-second
\* window holds more than MAX_REQUESTS_PER_SECOND recorded acquisitions.
\* acq_log holds the acquisitions of the window that ends at the newest
\* one, so its length is the largest count any window so far has held at
\* its newest acquisition.
C1_RateBound == Len(acq_log) <= MAX_REQUESTS_PER_SECOND

\* A thread found the ceiling reached, slept inside wait_for_rate_limit and
\* then recorded its acquisition, which filled the window again.
C1_Witness ==
    \E t \in Threads :
        /\ pc[t] = "request"
        /\ govSlept[t]
        /\ Len(acq_log) = MAX_REQUESTS_PER_SECOND

\* C2 -- Every network attempt of api_get, a first attempt or a retry, is
\* preceded by exactly one finished wait_for_rate_limit() call: a thread
\* about to issue a request has acquired once more than it has requested,
\* and at every other point the two counts are equal.
C2_AcquireBeforeAttempt ==
    \A t \in Threads :
        IF pc[t] = "request"
        THEN acqCount[t] = netCount[t] + 1
        ELSE acqCount[t] = netCount[t]

\* A thread about to issue its third attempt, after three acquisitions.
C2_Witness ==
    \E t \in Threads :
        pc[t] = "request" /\ netCount[t] = 2 /\ acqCount[t] = 3

\* C3 -- Whatever the outcomes, api_get makes at most max_retries network
\* attempts and returns the response or None; it never raises.
C3_BoundedNoRaise ==
    \A t \in Threads :
        /\ netCount[t] <= max_retries
        /\ result[t] # "raised"
        /\ pc[t] = "done" => result[t] \in {"response", "None"}
        /\ result[t] = "response" => lastOutcome[t] = "200"

\* A call that used all its attempts, the last of them raising inside the
\* try, and gave None to its caller.
C3_Witness ==
    \E t \in Threads :
        /\ pc[t] = "done"
        /\ netCount[t] = max_retries
        /\ lastOutcome[t] = "200_badjson"
        /\ result[t] = "None"

\* C4 -- A 429 at attempt k < max_retries makes api_get sleep
\* RETRY_DELAY * k seconds, all of them, and then retry; a 429 at attempt
\* k = max_retries makes it return None with no further attempt.
C4_ThrottleBackoff ==
    \A t \in Threads :
        lastOutcome[t] = "429" =>
            IF netCount[t] < max_retries
            THEN /\ pc[t] \in {"sleep", "wait", "gov_sleep", "request"}
                 /\ sleepDur[t] = RETRY_DELAY * netCount[t]
                 /\ pc[t] = "sleep" => attempt[t] = netCount[t] - 1
                 /\ pc[t] # "sleep" =>
                        /\ attempt[t] = netCount[t]
                        /\ slept[t] = RETRY_DELAY * netCount[t] * TicksPerSecond
            ELSE pc[t] = "done" /\ result[t] = "None"

\* A thread about to retry after its second 429 and a sleep of
\* RETRY_DELAY * 2 seconds.
C4_Witness ==
    \E t \in Threads :
        /\ pc[t] = "request"
        /\ lastOutcome[t] = "429"
        /\ netCount[t] = 2
        /\ sleepDur[t] = 2 * RETRY_DELAY

\* C5 as the specification states it: after a status that is neither 200
\* nor 429, or a transport error, at most one further attempt is made.
C5_AtMostOneFurtherAttempt == \A t \in Threads : afterFail[t] <= 1

\* C5 as the code has it: a status that is neither 200 nor 429 ends the call
\* at once with None; a transport error is followed by a sleep of
\* ERROR_DELAY seconds and another attempt as long as fewer than
\* max_retries attempts were made, so that up to max_retries - 1 attempts
\* follow the first failure.
C5_FailureRetries ==
    \A t \in Threads :
        /\ afterFail[t] <= max_retries - 1
        /\ lastOutcome[t] = "other" => pc[t] = "done" /\ result[t] = "None"
        /\ lastOutcome[t] = "transport_error" =>
              IF netCount[t] < max_retries
              THEN /\ pc[t] \in {"sleep", "wait", "gov_sleep", "request"}
                   /\ sleepDur[t] = ERROR_DELAY
                   /\ pc[t] # "sleep" => slept[t] = ERROR_DELAY * TicksPerSecond
              ELSE pc[t] = "done" /\ result[t] = "None"

\* A call whose first attempt met a transport error and which has made two
\* more attempts since.
C5_Witness ==
    \E t \in Threads : afterFail[t] = max_retries - 1 /\ netCount[t] = max_retries

(***************************************************************************)
(* Properties of the TTL caches, checked under SpecCache.                  *)
(***************************************************************************)

\* C6 -- TTL correctness: a get of key k, with no set of k since the last
\* one, returns the data last set when fewer than TTL hours have passed
\* since, and None when TTL hours or more have passed (or k was never set).
C6_TTLCorrect ==
    got # <<>> =>
        LET g == got[1] IN
        g.result = IF g.logged # <<>> /\ g.logged[1].age < g.duration
                   THEN g.logged[1].data
                   ELSE None

\* A get exactly TTL hours after the set: a miss, on an entry still stored.
C6_Witness ==
    /\ got # <<>>
    /\ got[1].logged # <<>>
    /\ got[1].logged[1].age = got[1].duration
    /\ got[1].result = None

PredictionSites == {s \in Sites : SiteCache(s) = "predictions_cache"}
Hit(s, k) == Truthy(get_cached_data(cache_dict, k, SiteDuration(s)))

\* C7 as the specification states it: at any moment all the places that
\* read a predictions-cache entry agree on whether it is a hit.
C7_OneTTL ==
    category = "predictions_cache" =>
        \A k \in Keys : \A s1, s2 \in PredictionSites : Hit(s1, k) = Hit(s2, k)

\* C7 as the code has it: process_single_fixture, prepare_comparison_single
\* and api_fixtures pass CACHE_DURATION and agree with each other;
\* process_finished_fixture passes CACHE_DURATION * 10, so it hits wherever
\* they hit, and it alone hits on an entry from CACHE_DURATION to less than
\* CACHE_DURATION * 10 old.
C7_TwoTTLs ==
    category = "predictions_cache" =>
        \A k \in Keys :
            /\ \A s1, s2 \in PredictionSites \ {"process_finished_fixture"} :
                   Hit(s1, k) = Hit(s2, k)
            /\ Hit("process_single_fixture", k) => Hit("process_finished_fixture", k)
            /\ (Hit("process_finished_fixture", k) /\ ~Hit("process_single_fixture", k))
                   <=> (/\ k \in DOMAIN cache_dict
                        /\ cache_dict[k].age >= CACHE_DURATION
                        /\ cache_dict[k].age < CACHE_DURATION * 10)

\* process_finished_fixture has just hit on an entry CACHE_DURATION old, on
\* which process_single_fixture misses.
C7_Witness ==
    /\ category = "predictions_cache"
    /\ got # <<>>
    /\ got[1].site = "process_finished_fixture"
    /\ Truthy(got[1].result)
    /\ cache_dict[got[1].key].age = CACHE_DURATION
    /\ ~Hit("process_single_fixture", got[1].key)

(***************************************************************************)
(* Properties of the read requests and the snapshot store, checked under   *)
(* SpecStore.                                                              *)
(***************************************************************************)

\* C8 as the specification states it: handling a read request never causes
\* a call of api_get.
C8_NoUpstreamOnRead ==
    /\ \A r \in Readers : calls[r] = {}
    /\ replied # <<>> => replied[1].calls = {}

\* C8 as the code has it: a pending read that finds a fresh entry for its
\* date in the store calls api_get for nothing but odds (get_advice_odd on
\* an odds-cache miss), and not at all when the entry's list is empty; a
\* finished read goes to get_fixtures_by_date, not to the store, and with no
\* finished fixture in the list it calls api_get for nothing but the list.
C8_ReadCalls ==
    /\ \A r \in Readers :
          reader[r].source = "store" => calls[r] = {}
    /\ replied # <<>> =>
          LET q == replied[1] IN
          /\ (q.endpoint = "api_fixtures" /\ q.source = "store") =>
                 /\ q.calls \subseteq {"/odds"}
                 /\ q.list = <<>> => q.calls = {}
          /\ (q.endpoint = "api_fixtures_finished" /\ q.body.fixtures = <<>>) =>
                 q.calls \subseteq {"/fixtures"}

\* A pending read served from the store has fetched odds.
C8_Witness ==
    /\ replied # <<>>
    /\ replied[1].endpoint = "api_fixtures"
    /\ replied[1].source = "store"
    /\ replied[1].body.fixtures # <<>>
    /\ replied[1].calls = {"/odds"}

\* C9 as the specification states it: a pending read for a date with no
\* entry in the store returns an empty list flagged as still building and
\* starts no build.
C9_EmptyAndBuilding ==
    replied # <<>> =>
        LET q == replied[1] IN
        (q.endpoint = "api_fixtures" /\ q.miss = "absent") =>
            /\ q.body.fixtures = <<>>
            /\ "building" \in q.body.keys
            /\ q.built = 0

\* C9 as the code has it: a pending read for a date with no entry in the
\* store runs filter_fixtures_for_date for the date on demand, once, and
\* returns the fixtures of the list so built that are not finished, under
\* the one key "fixtures"; the list is not put into the store.
C9_OnDemandBuild ==
    /\ \A r \in Readers :
          (reader[r].miss = "absent" /\ reader[r].pc = "on_demand") =>
              /\ reader[r].built = 1
              /\ build[r].stage # "none"
              /\ build[r].date = reader[r].date
    /\ replied # <<>> =>
          LET q == replied[1] IN
          (q.endpoint = "api_fixtures" /\ q.miss = "absent") =>
              /\ q.built = 1
              /\ q.body.keys = {"fixtures"}
              /\ [j \in DOMAIN q.body.fixtures |-> q.body.fixtures[j].rec]
                     = SelectSeq(q.list, LAMBDA rec : Status(rec) \notin Terminal)
              /\ q.date \notin DOMAIN filtered_fixtures_cache

\* A pending read for a date with no entry has returned a fixture.
C9_Witness ==
    /\ replied # <<>>
    /\ replied[1].endpoint = "api_fixtures"
    /\ replied[1].miss = "absent"
    /\ replied[1].body.fixtures # <<>>

\* C10 -- snapshot atomicity: every list in the store, and every list a
\* request has taken from the store, was whole when it was published (the
\* loop over the futures had run through all of them); a request reads the
\* store only while the publishing thread is not writing it.
C10_SnapshotAtomic ==
    /\ \A d \in DOMAIN filtered_fixtures_cache : filtered_fixtures_cache[d].whole
    /\ \A r \in Readers :
          /\ reader[r].source = "store" => reader[r].whole
          /\ ~(reader[r].pc = "locked" /\ sched.pc = "publish")

\* A request has taken the published list of a date from the store while
\* the populating thread is assembling that date's next list, a future
\* still out.
C10_Witness ==
    \E r \in Readers :
        /\ reader[r].pc = "serve"
        /\ reader[r].source = "store"
        /\ reader[r].list # <<>>
        /\ build[Scheduler].stage = "collect"
        /\ build[Scheduler].date = reader[r].date
        /\ build[Scheduler].pending # {}
        /\ build[Scheduler].filtered_fixtures # reader[r].list

\* What the store holds for a date: the list, and of each fixture dict in
\* it whether it carries an advice_odd key.
Content(store, marked, d) ==
    [j \in DOMAIN store[d].fixtures |->
        [rec |-> store[d].fixtures[j],
         advice_odd |-> store[d].fixtures[j] \in marked]]

\* C11 -- a published snapshot is read-only: in every step that is not a
\* publish, the list stored for each date and the fields of its records
\* stay as they are.
C11_SnapshotReadOnly ==
    [][sched.pc # "publish" =>
          \A d \in DOMAIN filtered_fixtures_cache :
              /\ d \in DOMAIN filtered_fixtures_cache'
              /\ Content(filtered_fixtures_cache', with_advice_odd', d)
                     = Content(filtered_fixtures_cache, with_advice_odd, d)]_vars

\* An entry of the store is written in a step: it is new, or its list or
\* its timestamp is.
Written(d) ==
    /\ d \in DOMAIN filtered_fixtures_cache'
    /\ \/ d \notin DOMAIN filtered_fixtures_cache
       \/ filtered_fixtures_cache'[d].fixtures # filtered_fixtures_cache[d].fixtures
       \/ filtered_fixtures_cache'[d].age < filtered_fixtures_cache[d].age

\* C12 -- entries of the store are created or overwritten only by the
\* populating thread (initial_cache_population, update_fixtures_cache),
\* holding cache_lock, for the date it has just filtered; no entry is ever
\* removed; no step of a request writes the store.
C12_OnlySchedulerWrites ==
    [][/\ DOMAIN filtered_fixtures_cache \subseteq DOMAIN filtered_fixtures_cache'
       /\ \A d \in DayOffsets \cup RequestDates :
             Written(d) => /\ sched.pc = "publish"
                           /\ sched.phase \in {"initial", "cycle"}
                           /\ cache_lock = Scheduler
                           /\ d = build[Scheduler].date]_vars

\* A request has returned the list it filtered on demand, the entry of
\* its date having expired, and the store still holds the expired entry.
C12_Witness ==
    /\ replied # <<>>
    /\ replied[1].source = "on_demand"
    /\ replied[1].miss = "expired"
    /\ replied[1].list # <<>>
    /\ replied[1].date \in DOMAIN filtered_fixtures_cache
    /\ ~Fresh(filtered_fixtures_cache[replied[1].date])

\* The filter_fixtures_for_date call a thread is in, if any, has returned.
OutsideFilter(t) ==
    \/ build[t].stage = "none"
    \/ Returned(t)

\* C15 -- cache_lock is never held while enrichment work runs: the thread
\* holding it is not inside filter_fixtures_for_date (nor, so, inside
\* process_single_fixture or api_get); the populating thread holds it only
\* to store a list already returned, a request only to look its date up.
C15_LockNotHeldInFilter ==
    /\ cache_lock # NoThread => OutsideFilter(cache_lock)
    /\ cache_lock = Scheduler <=> sched.pc = "publish"
    /\ \A r \in Readers : cache_lock = r <=> reader[r].pc = "locked"

\* A request holds the lock for its lookup while the populating thread is
\* inside filter_fixtures_for_date, futures out.
C15_Witness ==
    /\ cache_lock \in Readers
    /\ build[Scheduler].stage = "collect"
    /\ build[Scheduler].pending # {}

\* C19 -- fail-closed output: every record api_fixtures returns carries
\* an advice_odd.
C19_EveryRecordPriced ==
    replied # <<>> =>
        (replied[1].endpoint = "api_fixtures" =>
            \A j \in DOMAIN replied[1].body.fixtures :
                replied[1].body.fixtures[j].advice_odd)

(***************************************************************************)
(* Properties of the populating thread, checked under SpecSched and        *)
(* SpecSchedLive.                                                          *)
(***************************************************************************)

\* A new cycle of update_fixtures_cache begins.
CycleBegins ==
    /\ sched.phase = "cycle"
    /\ sched.pc = "filter"
    /\ sched.day = FirstDay
    /\ sched.published = <<>>
    /\ build[Scheduler].stage = "fetch"

\* C13 -- the loop of update_fixtures_cache never terminates: the thread,
\* once in the loop, is always in a cycle, in the sleep after a cycle or in
\* the sleep after an error, and from the end of a cycle and from an error
\* a new cycle begins in the end.
C13_LoopNeverEnds ==
    /\ [](sched.phase = "cycle" => sched.pc \in {"filter", "publish", "sleep", "recover"})
    /\ (sched.pc \in {"sleep", "recover"}) ~> CycleBegins

\* A cycle has begun after the sleep that follows an error.
C13_Witness ==
    /\ CycleBegins
    /\ sched.resumed

\* C14 as the specification states it: a cycle that has run to its end has
\* published the 5 dates from 2 days before today to 2 days after.
C14_FiveDates ==
    sched.pc = "sleep" => sched.published = <<-2, -1, 0, 1, 2>>

\* C14 as the code has it: a pass over the window takes the 4 dates from
\* yesterday to 2 days after today, in this order; a cycle publishes the
\* list of each date before it goes on to the next, so a cycle that has
\* run to its end has published the 4 of them, and the store never holds
\* another date.
C14_FourDates ==
    /\ sched.pc = "sleep" => sched.published = <<-1, 0, 1, 2>>
    /\ (sched.phase = "cycle" /\ sched.pc \in {"filter", "publish"}) =>
           /\ sched.published = SubSeq(<<-1, 0, 1, 2>>, 1, Len(sched.published))
           /\ sched.day = Len(sched.published) - 1
           /\ build[Scheduler].date = sched.day
    /\ DOMAIN filtered_fixtures_cache \subseteq {-1, 0, 1, 2}
    /\ sched.phase \in {"cycle", "initial"} => sched.day \in {-1, 0, 1, 2}

\* A cycle has run to its end, every one of its lists published within the
\* hour.
C14_Witness ==
    /\ sched.pc = "sleep"
    /\ sched.sleepLeft = FIXTURES_CACHE_DURATION
    /\ Len(sched.published) = 4
    /\ \A d \in {-1, 0, 1, 2} :
          d \in DOMAIN filtered_fixtures_cache /\ filtered_fixtures_cache[d].age = 0

(***************************************************************************)
(* Properties of the processing of fixtures and of the two endpoints'      *)
(* results.                                                                *)
(***************************************************************************)

\* What the fixture `x` needs to be accepted: it is well formed and not
\* passed over as finished, a prediction is obtained, its advice is a pick,
\* and get_advice_odd has data and makes a price of it.
Reached(x) == x.shape = "ok" /\ ~(x.skip_finished /\ x.status \in Terminal)
PredictionObtained(x) == x.pred_cached \/ x.pred_api = "payload"
PriceResolved(x) == x.market /\ (x.odds_cached \/ x.odds_api) /\ x.odds = "price"
Accepts(x) ==
    Reached(x) /\ PredictionObtained(x) /\ x.advice = "pick" /\ PriceResolved(x)

\* C16 -- batch resilience: filter_fixtures_for_date never fails because of
\* one record, and what it returns is every record of the list that is
\* accepted, the records whose fetches fail or whose processing raises
\* being omitted.
C16_BatchResilient ==
    /\ batch.stage # "raised"
    /\ batch.stage = "returned" =>
          {batch.filtered_fixtures[j] : j \in DOMAIN batch.filtered_fixtures}
              = {i \in DOMAIN batch.records : Accepts(batch.records[i])}

OddsSteps == {"get_cached_data odds_cache", "api_get /odds", "set_cached_data odds_cache"}

\* C18 -- the state machine of one record: process_single_fixture returns
\* the fixture only if a prediction was obtained, then its advice is a
\* pick, then get_advice_odd returned a price; its first step is the
\* predictions lookup; when no prediction is obtained it returns None
\* having written no cache and made no odds step; when the advice is not a
\* pick it returns None having made no odds step; every predictions step
\* comes before every odds step.
C18_FirstFailureDiscards ==
    single # <<>> =>
        LET x == single[1].input
            s == single[1].steps
            odds == {j \in DOMAIN s : s[j] \in OddsSteps}
            writes == {j \in DOMAIN s : s[j] \in {"set_cached_data predictions_cache",
                                                 "set_cached_data odds_cache"}}
        IN
        /\ single[1].result = "fixture" <=> Accepts(x)
        /\ ~Reached(x) => s = <<>>
        /\ Reached(x) =>
              /\ s # <<>> /\ s[1] = "get_cached_data predictions_cache"
              /\ ~PredictionObtained(x) =>
                    single[1].result = "None" /\ odds = {} /\ writes = {}
              /\ (PredictionObtained(x) /\ x.advice # "pick") =>
                    single[1].result = "None" /\ odds = {}
              /\ (PredictionObtained(x) /\ x.advice = "pick" /\ x.market) => odds # {}
              /\ \A j \in odds : \A k \in DOMAIN s : k > j => k \in odds
              /\ (odds # {} /\ ~PriceResolved(x)) => single[1].result = "None"

\* A fixture whose prediction was fetched and cached, and whose advice is
\* the no-pick dash, is discarded without an odds step, though its odds
\* would have given a price.
C18_Witness ==
    /\ single # <<>>
    /\ single[1].input.advice = "dash"
    /\ PriceResolved(single[1].input)
    /\ single[1].result = "None"
    /\ single[1].steps = <<"get_cached_data predictions_cache", "api_get /predictions",
                           "set_cached_data predictions_cache">>

\* A leg has a selection: its market data is there and some bet has an
\* option of the wanted value.
Selected(leg) ==
    /\ leg.market # "unavailable"
    /\ \E j \in DOMAIN leg.bets : leg.bets[j][1] # "none"

\* C20 -- combo pricing: for an advice of the combo grammar get_advice_odd
\* returns the product of the prices of the two legs when both legs have a
\* selection, and None when either has none or its market data is
\* unavailable.
C20_ProductOrNone ==
    (priced # <<>> /\ priced[1].input.parse = "ok") =>
        LET a == priced[1].input IN
        IF Selected(a.dc) /\ Selected(a.gu)
        THEN /\ priced[1].result[1] = "price"
             /\ priced[1].result[2] = LegScan(a.dc.bets, 1)[2] * LegScan(a.gu.bets, 1)[2]
        ELSE priced[1].result = <<"None", 0>>

(***************************************************************************)
(* get_advice_odd on advice texts                                          *)
(***************************************************************************)

\* The lower-cased advice of the latest call and the stripped, lower-cased
\* names of the two teams of its fixture.
AdviceLower == lower(advised[1].input.advice)
HomeLower == lower(strip(advised[1].input.home))
AwayLower == lower(strip(advised[1].input.away))

\* The text the double-chance mapping reads: the clause between "combo
\* double chance :" and "and" where the combo grammar matches, the whole
\* advice of a simple double-chance advice.
Clause ==
    IF In(<<"combo", "double", "chance">>, AdviceLower)
    THEN ComboMatch(AdviceLower)[1].dc_part
    ELSE AdviceLower

\* The latest call had a double-chance mapping to make: its advice is a
\* string with "double chance" in it, and the combo grammar matches where
\* the advice is a combo.
MapsDoubleChance ==
    /\ advised # <<>>
    /\ advised[1].input.kind = "str"
    /\ In(<<"double", "chance">>, AdviceLower)
    /\ In(<<"combo", "double", "chance">>, AdviceLower) =>
           ComboMatch(AdviceLower) # <<>>

\* Both teams of the fixture of the latest call have a name.
TeamsNamed == HomeLower # <<>> /\ AwayLower # <<>>

\* C21 -- double-chance selection mapping, for the combo clause and the
\* simple advice alike, on a fixture whose teams have names: the target is
\* home/draw if the text names the home team and has "draw" in it,
\* draw/away if it names the away team and has "draw" in it, home/away if
\* it names both teams, and in every other case there is no target and the
\* call returns None.
C21_DoubleChanceMapping ==
    (MapsDoubleChance /\ TeamsNamed) =>
        LET names_home == In(HomeLower, Clause)
            names_away == In(AwayLower, Clause)
            draw == In(<<"draw">>, Clause)
            out == advised[1].out
        IN /\ (names_home /\ draw) => out.option = <<"home/draw">>
           /\ (~names_home /\ names_away /\ draw) => out.option = <<"draw/away">>
           /\ (~draw /\ names_home /\ names_away) => out.option = <<"home/away">>
           /\ ~((names_home \/ names_away) /\ (draw \/ (names_home /\ names_away))) =>
                  /\ out.option = <<>>
                  /\ out.result = <<"None", 0>>

\* A combo clause naming the away team and "draw" was mapped to draw/away,
\* a selection the market data did not have.
C21_Witness ==
    /\ MapsDoubleChance /\ TeamsNamed
    /\ advised[1].out.path = "combo"
    /\ advised[1].out.option = <<"draw/away">>
    /\ advised[1].out.result[1] = "None"

\* C22 -- fail-closed resolution: for every fixture and market data, an
\* advice text with neither "winner" nor "double chance" in it makes
\* get_advice_odd return None with no upstream call.
C22_FailClosed ==
    (/\ advised # <<>>
     /\ advised[1].input.kind = "str"
     /\ ~In(<<"winner">>, AdviceLower)
     /\ ~In(<<"double", "chance">>, AdviceLower)) =>
        /\ advised[1].out.result = <<"None", 0>>
        /\ advised[1].out.calls = 0

\* An advice that names the home team and no market was refused though
\* the market data, to be fetched, had a priced selection "Home".
C22_Witness ==
    /\ advised # <<>>
    /\ advised[1].input.advice = <<"Home">>
    /\ advised[1].input.home = <<"Home">>
    /\ advised[1].input.first.market = "fetched"
    /\ advised[1].input.first.values = <<[value |-> <<"Home">>, odd |-> <<"num", 2>>]>>
    /\ advised[1].out.result = <<"None", 0>>
    /\ advised[1].out.calls = 0

\* C23 -- an advice with the word "combo" in it is never priced as a
\* simple bet: get_advice_odd returns the price of a single market only
\* for an advice that has "double chance" or "winner" in it and no
\* "combo".
C23_ComboNeverSimple ==
    (/\ advised # <<>>
     /\ advised[1].out.path = "simple"
     /\ advised[1].out.result[1] = "price") =>
        /\ In(<<"double", "chance">>, AdviceLower) \/ In(<<"winner">>, AdviceLower)
        /\ ~In(<<"combo">>, AdviceLower)

\* A team's name appears in the advice: the team has a name, and the
\* advice has it.
Appears(name) == name # <<>> /\ In(name, AdviceLower)

\* C24 -- ambiguous team-name containment fails closed: for every fixture,
\* one with a missing or empty team name included, get_advice_odd returns
\* None for a "winner" or "double chance" advice in which neither team's
\* name appears.
C24_UnnamedFailsClosed ==
    (/\ advised # <<>>
     /\ advised[1].input.kind = "str"
     /\ In(<<"double", "chance">>, AdviceLower) \/ In(<<"winner">>, AdviceLower)
     /\ ~Appears(HomeLower)
     /\ ~Appears(AwayLower)) =>
        advised[1].out.result = <<"None", 0>>

\* C25 -- get_advice_odd never raises: for a missing or empty advice, the
\* sentinel "-", a matching selection whose odd is malformed or missing,
\* or a selection with no label, it returns None on the simple and on the
\* combo path.
C25_NeverRaises ==
    advised # <<>> => advised[1].out.result[1] # "raise"

(***************************************************************************)
(* check_prediction_result                                                 *)
(***************************************************************************)

\* The lower-cased advice of the latest check and the stripped, lower-cased
\* names of the two teams of its record.
CheckedAdvice == lower(checked[1].input.advice)
CheckedHome == lower(strip(checked[1].input.home))
CheckedAway == lower(strip(checked[1].input.away))

\* The latest check was of a string advice on a record with both goal
\* counts.
Scored ==
    /\ checked # <<>>
    /\ checked[1].input.kind = "str"
    /\ checked[1].input.home_goals # <<>>
    /\ checked[1].input.away_goals # <<>>

\* The result of the record of the latest check, from its score.
Actual ==
    LET h == checked[1].input.home_goals[1]
        a == checked[1].input.away_goals[1]
    IN IF h > a THEN "home" ELSE IF h < a THEN "away" ELSE "draw"

TotalGoals == checked[1].input.home_goals[1] + checked[1].input.away_goals[1]

\* C26 -- combo outcome: for an advice of the combo double-chance form on
\* a record with a full score, check_prediction_result returns true iff
\* the double-chance condition holds and total goals is strictly below the
\* threshold (for "-") or strictly above it (for "+"); a combo whose
\* double-chance leg holds and whose goals leg fails is reported false.
C26_ComboBothLegs ==
    (Scored /\ ComboMatch(CheckedAdvice) # <<>>) =>
        LET m == ComboMatch(CheckedAdvice)[1]
            threshold == float_halves(lstrip_sign(m.goal_value))
            dc_holds == Actual \in dc_results(CheckedHome, CheckedAway, m.dc_part)
            goals_hold == IF startswith_minus(m.goal_value)
                          THEN 2 * TotalGoals < threshold
                          ELSE 2 * TotalGoals > threshold
        IN checked[1].out = Bool(dc_holds /\ goals_hold)

\* The latest check was of a simple advice of the given market: the words
\* of the market and no "combo", on a record whose teams have names.
SimpleAdvice(market) ==
    /\ Scored
    /\ CheckedHome # <<>> /\ CheckedAway # <<>>
    /\ In(market, CheckedAdvice)
    /\ ~In(<<"combo">>, CheckedAdvice)

\* C27 -- simple outcome comparison, on a record whose teams have names:
\* the actual result is home if home goals > away goals, away if less and
\* draw if equal; a "winner" advice naming one team is true iff that team
\* is the actual winner, and a "double chance" advice is true iff the
\* actual result is one of the two outcomes it names.  So a 2-1 with
\* "Winner : Home" is true and with "Double chance : draw or Away" false.
C27_SimpleOutcome ==
    LET names_home == In(CheckedHome, CheckedAdvice)
        names_away == In(CheckedAway, CheckedAdvice)
        draw == In(<<"draw">>, CheckedAdvice)
        out == checked[1].out
    IN /\ (SimpleAdvice(<<"winner">>) /\ ~In(<<"double", "chance">>, CheckedAdvice)) =>
              /\ (names_home /\ ~names_away) => out = Bool(Actual = "home")
              /\ (names_away /\ ~names_home) => out = Bool(Actual = "away")
       /\ SimpleAdvice(<<"double", "chance">>) =>
              /\ (names_home /\ ~names_away /\ draw) => out = Bool(Actual \in {"home", "draw"})
              /\ (names_away /\ ~names_home /\ draw) => out = Bool(Actual \in {"away", "draw"})
              /\ (names_home /\ names_away /\ ~draw) => out = Bool(Actual \in {"home", "away"})
       /\ (/\ SimpleAdvice(<<>>)
           /\ checked[1].input.home_goals = <<2>>
           /\ checked[1].input.away_goals = <<1>>) =>
              /\ checked[1].input.advice = <<"Winner", ":", "Home">> => out = "True"
              /\ checked[1].input.advice = <<"Double", "chance", ":", "draw", "or", "Away">>
                     => out = "False"

\* A 2-1 was checked against "Double chance : draw or Away" and found
\* false.
C27_Witness ==
    /\ SimpleAdvice(<<"double", "chance">>)
    /\ checked[1].input.home_goals = <<2>>
    /\ checked[1].input.away_goals = <<1>>
    /\ checked[1].input.advice = <<"Double", "chance", ":", "draw", "or", "Away">>
    /\ checked[1].out = "False"

\* C28 -- if the home or the away goal count of a record is missing,
\* check_prediction_result returns None, never false, for every advice.
C28_NoScoreUnknown ==
    (/\ checked # <<>>
     /\ checked[1].input.home_goals = <<>> \/ checked[1].input.away_goals = <<>>) =>
        checked[1].out = "None"

\* A record with no home goal count was checked against "Winner : Home".
C28_Witness ==
    /\ checked # <<>>
    /\ checked[1].input.home_goals = <<>>
    /\ checked[1].input.away_goals = <<1>>
    /\ checked[1].input.advice = <<"Winner", ":", "Home">>
    /\ checked[1].out = "None"

(***************************************************************************)
(* Termination of process_single_fixture (under SpecTaskLive)              *)
(***************************************************************************)

\* The fetches of a call so far are within what its stage allows: the
\* prediction is the first, the first odds market at most the second and
\* the second odds market at most the third.
FetchesBounded(t) ==
    /\ task[t].fetches <= 3
    /\ task[t].stage = "prediction" => task[t].fetches = 1
    /\ task[t].stage = "odds_first" => task[t].fetches <= 2

\* A thread asleep inside wait_for_rate_limit has at most a second to go.
SleepBounded(t) == pc[t] = "gov_sleep" => sleepLeft[t] <= TicksPerSecond

\* C29 -- every record-processing task completes or fails: under fair
\* scheduling of the threads and of the governor's lock every
\* process_single_fixture call ends, having made at most 3 upstream
\* fetches (one for the prediction, at most two for odds markets) of at
\* most 3 attempts each; and every wait_for_rate_limit call returns, after
\* at most one sleep of at most a second.
C29_TaskTerminates ==
    /\ [](\A t \in Callers :
            /\ FetchesBounded(t)
            /\ netCount[t] <= max_retries)
    /\ [](\A t \in Callers \cup Rivals : SleepBounded(t))
    /\ [][\A t \in Callers \cup Rivals :
            (pc[t] = "gov_sleep" /\ pc'[t] # "gov_sleep") => pc'[t] = "request"]_vars
    /\ \A t \in Callers :
          (task[t].stage \in FetchStages) ~> (task[t].stage \in {"returned", "raised"})

\* A call is in the third attempt of its third fetch, asleep in the
\* governor.
C29_Witness ==
    \E t \in Callers :
        /\ task[t].stage = "odds_second"
        /\ task[t].fetches = 3
        /\ attempt[t] = max_retries - 1
        /\ pc[t] = "gov_sleep"

(***************************************************************************)
(* The order of the dates (under SpecDates)                                *)
(***************************************************************************)

\* C30 -- the scheduler builds the dates strictly one after another: in a
\* cycle it publishes the snapshot of date d only after the batch of d has
\* fully completed and before it starts the batch of the next date, and
\* it never has two date batches in progress at once.
C30_DatesOneByOne ==
    /\ [][dates'.last # dates.last =>
             /\ batch.stage = "returned" /\ batch.pending = {}
             /\ dates'.last = dates.day]_vars
    /\ [][(/\ dates.phase = "cycle" /\ dates'.phase = "cycle"
            /\ dates'.day = dates.day + 1) => dates'.last = dates.day]_vars
    /\ [](batch.stage = "collect" => dates.stray = {})

(***************************************************************************)
(* What a read and a failed fetch leave of a cache (under SpecCache)       *)
(***************************************************************************)

\* C32 -- a cache read never modifies a cache: a lookup that stores nothing
\* (a hit, or a miss on an absent or an expired entry with no payload to
\* store) leaves the dictionary as it was, the expired entry in its place;
\* a lookup that stores touches the entry of its own key only; and the
\* number of keys of a dictionary never decreases.
C32_ReadLeavesStore ==
    /\ [][got' # <<>> =>
            /\ DOMAIN cache_dict \subseteq DOMAIN cache_dict'
            /\ \A k \in DOMAIN cache_dict :
                   k # got'[1].key => cache_dict'[k] = cache_dict[k]
            /\ (got'[1].fetched = <<>> \/ got'[1].fetched[1][1] # "payload")
                   => cache_dict' = cache_dict]_vars
    /\ [][Cardinality(DOMAIN cache_dict') >= Cardinality(DOMAIN cache_dict)]_vars

\* A read has just missed on an entry past its duration, nothing was
\* stored, and the entry is still there.
C32_Witness ==
    /\ got # <<>>
    /\ got[1].result = None
    /\ got[1].fetched \in {<<>>, <<None>>}
    /\ got[1].key \in DOMAIN cache_dict
    /\ cache_dict[got[1].key].age >= got[1].duration
    /\ Cardinality(DOMAIN cache_dict) = NumKeys

\* C33 -- a failed or empty upstream fetch never writes to a cache: when
\* api_get gives None or an empty response the dictionary is left as it
\* was, an older entry of the key keeping its value and its timestamp; so
\* every stored value is a non-empty payload.
C33_FailedFetchStoresNothing ==
    /\ [][(/\ got' # <<>>
           /\ got'[1].fetched # <<>>
           /\ got'[1].fetched[1][1] # "payload")
              => cache_dict' = cache_dict /\ setLog' = setLog]_vars
    /\ [](\A k \in DOMAIN cache_dict : cache_dict[k].data[1] = "payload")

\* get_advice_odd has just fetched an empty response for a key whose older
\* entry, past its duration, is still stored.
C33_Witness ==
    /\ got # <<>>
    /\ got[1].site = "get_advice_odd"
    /\ got[1].fetched = << <<"empty", 0>> >>
    /\ got[1].key \in DOMAIN cache_dict
    /\ cache_dict[got[1].key].data = <<"payload", got[1].key>>

(***************************************************************************)
(* What filter_fixtures_for_date accepts (under SpecBatch)                 *)
(***************************************************************************)

\* C36 -- every record in the list filter_fixtures_for_date returns, and
\* in the list it is building, had a status other than FT, AET and PEN
\* when it was processed: a finished record is never accepted.
C36_NoTerminalAccepted ==
    \A j \in DOMAIN batch.filtered_fixtures :
        batch.records[batch.filtered_fixtures[j]].status \notin {"FT", "AET", "PEN"}

\* A list has been returned with a record in it, from a batch that also
\* held a record finished on penalties and one finished after extra time.
C36_Witness ==
    /\ batch.stage = "returned"
    /\ batch.filtered_fixtures # <<>>
    /\ \E i, j \in DOMAIN batch.records :
          /\ batch.records[i].status = "PEN"
          /\ batch.records[j].status = "AET"

(***************************************************************************)
(* The publishing of a date whose fetch gave nothing (under SpecSchedLive) *)
(***************************************************************************)

\* The populating thread is in or just out of a filter_fixtures_for_date
\* call on the date `d` whose get_fixtures_by_date gave nothing.
NothingFetched(d) ==
    /\ sched.pc \in {"filter", "publish"}
    /\ build[Scheduler].date = d
    /\ build[Scheduler].stage = "returned"
    /\ build[Scheduler].gen = 0

\* C34 -- when the fetch of the records of date d fails or gives nothing,
\* the scheduler still publishes an entry for d: its write puts an empty
\* list with a fresh timestamp in the place of whatever snapshot was
\* published for d before, and it comes to that write in the end.
C34_EmptyPublished ==
    /\ [][\A d \in DayOffsets :
            (NothingFetched(d) /\ sched.pc = "publish" /\ sched' # sched) =>
                /\ d \in DOMAIN filtered_fixtures_cache'
                /\ filtered_fixtures_cache'[d].fixtures = <<>>
                /\ filtered_fixtures_cache'[d].age = 0]_vars
    /\ \A d \in DayOffsets :
          NothingFetched(d) ~>
              (/\ ~NothingFetched(d)
               /\ d \in DOMAIN filtered_fixtures_cache
               /\ filtered_fixtures_cache[d].fixtures = <<>>
               /\ filtered_fixtures_cache[d].age = 0)

\* The fetch for today has given nothing while the store holds a snapshot
\* of today with a record in it, and the thread is at the write.
C34_Witness ==
    /\ NothingFetched(0)
    /\ sched.pc = "publish"
    /\ 0 \in DOMAIN filtered_fixtures_cache
    /\ filtered_fixtures_cache[0].fixtures # <<>>

(***************************************************************************)
(* What get_filtered_fixtures_from_cache returns (under SpecStore)         *)
(***************************************************************************)

\* C35 -- get_filtered_fixtures_from_cache returns the stored list of the
\* date exactly when the store has an entry for it whose age is strictly
\* less than FIXTURES_CACHE_DURATION + 3600 s; with no entry, or an entry
\* of that age or more, it returns what a filter_fixtures_for_date call
\* on the date, begun after the lookup and run without cache_lock, returns.
C35_StoredIffFresh ==
    /\ [][\A r \in Readers :
            (reader[r].pc = "locked" /\ reader'[r].pc # "locked") =>
                LET d == reader[r].date
                    store == filtered_fixtures_cache IN
                IF /\ d \in DOMAIN store
                   /\ store[d].age < FIXTURES_CACHE_DURATION + EXPIRY_GRACE
                THEN /\ reader'[r].pc = "serve"
                     /\ reader'[r].source = "store"
                     /\ reader'[r].list = store[d].fixtures
                     /\ build'[r] = build[r]
                ELSE /\ reader'[r].pc = "on_demand"
                     /\ reader'[r].source = "on_demand"
                     /\ build'[r] = StartBuild(d)
                     /\ cache_lock' # r]_vars
    /\ [][\A r \in Readers :
            (reader[r].pc = "on_demand" /\ reader'[r].pc # "on_demand") =>
                /\ build[r].date = reader[r].date
                /\ Returned(r)
                /\ reader'[r].pc = "serve"
                /\ reader'[r].list = build[r].filtered_fixtures]_vars
    /\ [](\A r \in Readers : reader[r].pc = "on_demand" => cache_lock # r)

\* A request has met an entry exactly FIXTURES_CACHE_DURATION + 3600 s
\* old and is filtering the date on demand, a record already accepted,
\* while the lock is free.
C35_Witness ==
    \E r \in Readers :
        /\ reader[r].pc = "on_demand"
        /\ reader[r].miss = "expired"
        /\ filtered_fixtures_cache[reader[r].date].age
               = FIXTURES_CACHE_DURATION + EXPIRY_GRACE
        /\ build[r].filtered_fixtures # <<>>
        /\ cache_lock = NoThread

(***************************************************************************)
(* The fan-out (under SpecPool)                                            *)
(***************************************************************************)

\* The record-processing tasks executing, waited for or not.
Executing ==
    Total(pool.running, Clients) + Total(pool.stray, DOMAIN pool.stray)

\* C31 -- bounded fan-out: at any moment at most 5 record-processing tasks
\* (process_single_fixture or process_finished_fixture) are executing,
\* counted over the batch of the populating thread and the batches of all
\* the requests, for they share one executor of 5 workers.
C31_BoundedFanOut == Executing <= 5

\* Five tasks are executing, of the populating thread and of a request
\* that processes finished records among them, while more wait in the
\* queue.
C31_Witness ==
    /\ Executing = 5
    /\ \E x \in DOMAIN pool.work_queue : pool.work_queue[x] # <<>>
    /\ pool.running[Populator] > 0
    /\ \E c \in Clients \ {Populator} :
          pool.running[c] > 0 /\ pool.fn[c] = "process_finished_fixture"

====
